---- MODULE Spec2Model ----
(***************************************************************************)
(* Model of the ESP32 sensor-node firmware (apps/esp32/src/main.cpp): the  *)
(* manifest-backed queue on the SD card, photo capture, the upload engine  *)
(* with retries, the retention controller, and power loss followed by      *)
(* setup().  The device is single-threaded: pc is the position of the one  *)
(* thread inside setup()/loop() and the handlers they call.                *)
(***************************************************************************)
EXTENDS Integers, Sequences, FiniteSets, TLC

\* ---------------------------------------------------------------- bounds
MaxSeq == 2          \* seq values handed out in one run of the model
MaxElapsed == 600    \* seconds of real time covered by one run
MaxReboots == 1      \* power losses in one run
WallBase == 100000   \* wall-clock epoch (seconds) at the first boot
MaxFaults == 1       \* storage operations that fail in one run (SpecIO)
FramesPerStep == 200 \* microphone frames of one level that one step of the model reads
MaxOverFrames == 4   \* idle frames over the start threshold per boot (SpecAudio)
MaxFrames == 700     \* microphone frames read in one run (SpecRing)

\* ------------------------------------------------- program constants
UPLOAD_MAX_ATTEMPTS == 3
UPLOAD_BACKOFF_SEC_1 == 60
UPLOAD_BACKOFF_SEC_2 == 300
UPLOAD_BACKOFF_SEC_3 == 1800
UPLOAD_BATCH_SIZE == 5
SD_MIN_FREE_PERCENT == 15
SD_EMERGENCY_FREE_PERCENT == 5
AUDIO_SAMPLE_RATE == 16000
AUDIO_FRAME_MS == 20
AUDIO_PREROLL_MS == 1000
AUDIO_MIN_SEC == 1
AUDIO_MAX_SEC == 60
AUDIO_VAD_START_FRAMES == 4
AUDIO_VAD_STOP_FRAMES == 50
AUDIO_PHOTO_CLIP_POST_MS == 9000
AUDIO_HEARTBEAT_INTERVAL_MS == 5 * 60 * 1000
AUDIO_HEARTBEAT_DURATION_MS == 3000
kAudioFrameSamples == (AUDIO_SAMPLE_RATE * AUDIO_FRAME_MS) \div 1000
kAudioPrerollSamples == (AUDIO_SAMPLE_RATE * AUDIO_PREROLL_MS) \div 1000
\* setup() sleeps delay(1000) before anything else: millis()/1000 >= 1
BootUptimeSec == 1

\* The card: SD_MMC.totalBytes()/usedBytes() in units of 1/40 of the card.
\* An artifact file takes FileUnits; data that is not ours takes base_used.
TotalUnits == 40
FileUnits == 2
BaseUsedChoices == {32, 36}

\* Seconds the clock may advance between two steps of loop().
TimeSteps == {UPLOAD_BACKOFF_SEC_2}

Seqs == 0 .. (MaxSeq - 1)

VARIABLES
    \* --- persistent: NVS and the SD card
    nvs_seq,          \* Preferences key "seq"
    files,            \* artifact files on the card: set of [path, units]
    manifests,        \* /manifests/<seq>.json: set of manifest records
    tmps,             \* /manifests/<seq>.json.tmp files present: set of seq
    base_used,        \* units of the card used by other data
    mic_present,      \* whether init_audio() succeeds on this board
    cam_present,      \* whether esp_camera_init() succeeds on this board
    sd_present,       \* whether SD_MMC.begin() mounts a card
    \* --- clocks
    wall,             \* true wall-clock time (what time() returns once synced)
    uptime,           \* millis()/1000
    \* --- RAM (statics of main.cpp and locals of the running handler)
    pc,
    in_setup,         \* TRUE while setup() runs, FALSE in loop()
    sd_ok, camera_ok, wifi_ok, ntp_synced, capture_paused,
    audio_ok, audio_recording, audio_photo_clip_pending, audio_photo_clip_epoch,
    audio_heartbeat_pending,
    audio_filepath, audio_start_epoch, audio_seq, audio_samples_written,
    audio_force_active, audio_force_stop_samples,
    vad_over_count, vad_under_count,
    preroll_index, preroll_filled,
    last_audio_heartbeat,
    audio_preroll,    \* the preroll ring, one slot per frame: the number of the frame it holds (0: none)
    audio_file,       \* the frames written to the audio file that was opened last, in file order
    start_epoch,        \* start_audio_recording: argument start_epoch
    force_stop_samples, \* start_audio_recording: argument force_stop_samples
    over_frames,      \* frames over the start threshold that audio_tick read since boot
    cap_seq,          \* capture_and_save: local seq
    item,             \* PendingItem selected by find_oldest_*
    attempt_epoch,    \* upload_one_pending: local attempt_epoch
    batch_i,          \* upload_batch: loop counter i
    free_pct,         \* enforce_retention: local free_pct
    wm, wm_ret,       \* write_manifest_atomic: arguments, and where it returns to
    \* --- history (not read by the program)
    latest,           \* per seq: the manifest last renamed into place
    ingest_acks,      \* per seq: ingest notifications answered 200
    failed_attempts,  \* per seq: upload_one_pending calls that returned false after selecting it
    reboots,          \* power losses so far
    issued,           \* the values get_next_seq returned, in order
    attempt_wall,     \* per seq: the true time of the last request_upload_target for it
    frames_read,      \* frames audio_tick has read (followed, like the two above, by SpecRing)
    over_run,         \* frames over the start threshold read in a row up to the last frame read (at most AUDIO_VAD_START_FRAMES counted)
    attempts_started, \* per seq: upload attempts that went on from the bump of line 1010 to line 1012
    io_faults         \* storage operations that failed so far

hwVars == <<mic_present, cam_present, sd_present>>
diskVars == <<nvs_seq, files, manifests, tmps, base_used, hwVars>>
clockVars == <<wall, uptime>>
flagVars == <<sd_ok, camera_ok, wifi_ok, ntp_synced, capture_paused>>
clipVars == <<audio_photo_clip_pending, audio_photo_clip_epoch, audio_heartbeat_pending>>
recVars == <<audio_filepath, audio_start_epoch, audio_seq, audio_samples_written, audio_force_active, audio_force_stop_samples, vad_under_count>>
micVars == <<vad_over_count, preroll_index, preroll_filled, over_frames>>
timerVars == <<last_audio_heartbeat>>
startVars == <<start_epoch, force_stop_samples>>
audioVars == <<audio_ok, audio_recording, clipVars, recVars, micVars, timerVars, startVars>>
localVars == <<cap_seq, item, attempt_epoch, batch_i, free_pct, wm, wm_ret>>
progHist == <<latest, ingest_acks, failed_attempts, reboots, io_faults, issued, attempt_wall, attempts_started>>
histVars == <<latest, ingest_acks, failed_attempts, reboots, io_faults, issued, attempt_wall, attempts_started, over_run>>
ringVars == <<audio_preroll, audio_file, frames_read>>
vars == <<diskVars, clockVars, pc, in_setup, flagVars, audioVars, localVars, histVars, ringVars>>

\* ------------------------------------------------------------ data shapes
NoPath == [folder |-> "", stamp |-> 0, seq |-> -1, ext |-> ""]

NoManifest ==
    [filepath |-> NoPath, seq |-> -1, captured_at_epoch |-> 0, status |-> "",
     item_type |-> "", content_type |-> "", upload_attempts |-> 0,
     last_attempt_epoch |-> 0]

\* struct PendingItem, default-constructed
NoItem ==
    [manifest_path |-> -1, filepath |-> NoPath, item_type |-> "", content_type |-> "",
     seq |-> 0, captured_epoch |-> 0, upload_attempts |-> 0, last_attempt_epoch |-> 0]

\* ---------------------------------------------------------------- clock
now_epoch == IF ntp_synced THEN wall ELSE uptime

\* build_date_folder() + build_filename(seq)
PhotoPath(seq) ==
    IF ~ntp_synced
    THEN [folder |-> "/unsynced", stamp |-> 0, seq |-> seq, ext |-> ".jpg"]
    ELSE [folder |-> "/YYYYMMDD", stamp |-> wall, seq |-> seq, ext |-> ".jpg"]

\* ------------------------------------------------------------- the card
FileAt(path) == {f \in files : f.path = path}
FileExists(path) == FileAt(path) # {}
ManifestAt(seq) == {m \in manifests : m.seq = seq}

RECURSIVE SumUnits(_)
SumUnits(fs) ==
    IF fs = {} THEN 0
    ELSE LET f == CHOOSE x \in fs : TRUE IN f.units + SumUnits(fs \ {f})

UsedUnits(fs) == base_used + SumUnits(fs)

\* free_percent()
free_percent(fs) == ((TotalUnits - UsedUnits(fs)) * 100) \div TotalUnits

\* ------------------------------------------------------- load_manifest
load_manifest(m) ==
    LET it == IF m.item_type = ""
              THEN (IF m.filepath.ext = ".wav" THEN "audio" ELSE "photo")
              ELSE m.item_type
        ct == IF m.content_type = ""
              THEN (IF it = "audio" THEN "audio/wav" ELSE "image/jpeg")
              ELSE m.content_type
    IN [manifest_path |-> m.seq, filepath |-> m.filepath, item_type |-> it,
        content_type |-> ct, seq |-> m.seq, captured_epoch |-> m.captured_at_epoch,
        upload_attempts |-> m.upload_attempts,
        last_attempt_epoch |-> m.last_attempt_epoch]

\* the JSON payload write_manifest_atomic builds from its arguments
ManifestPayload(seq, filepath, captured_epoch, status, item_type, content_type, upload_attempts, last_attempt) ==
    [filepath |-> filepath, seq |-> seq, captured_at_epoch |-> captured_epoch,
     status |-> status, item_type |-> item_type, content_type |-> content_type,
     upload_attempts |-> upload_attempts, last_attempt_epoch |-> last_attempt]

\* update_manifest_status(item, status, attempts, last_attempt_epoch)
update_manifest_status(it, status, attempts, last_attempt) ==
    ManifestPayload(it.seq, it.filepath, it.captured_epoch, status, it.item_type,
                    it.content_type, attempts, last_attempt)

\* the preroll ring in frames: kAudioPrerollSamples is a whole number of frames
PrerollFrames == kAudioPrerollSamples \div kAudioFrameSamples

\* the ring as allocated by init_audio(), nothing pushed yet
EmptyRing == [i \in 0 .. PrerollFrames - 1 |-> 0]

\* ------------------------------------------------------------- Init
\* The state when power is applied, on a board whose microphone, camera and card
\* answer as given, with NVS and the card as an earlier run left them: every static
\* has its initializer.
BootOn(mics, cams, sds, bases, seq, fs, ms) ==
    /\ nvs_seq = seq
    /\ files = fs
    /\ manifests = ms
    /\ tmps = {}
    /\ base_used \in bases
    /\ mic_present \in mics
    /\ cam_present \in cams
    /\ sd_present \in sds
    /\ wall = WallBase
    /\ uptime = 0
    /\ pc = "boot"
    /\ in_setup = TRUE
    /\ sd_ok = FALSE /\ camera_ok = FALSE /\ wifi_ok = FALSE
    /\ ntp_synced = FALSE /\ capture_paused = FALSE
    /\ audio_ok = FALSE /\ audio_recording = FALSE
    /\ audio_photo_clip_pending = FALSE /\ audio_photo_clip_epoch = 0
    /\ audio_heartbeat_pending = FALSE
    /\ audio_filepath = NoPath /\ audio_start_epoch = 0 /\ audio_seq = 0
    /\ audio_samples_written = 0
    /\ audio_force_active = FALSE /\ audio_force_stop_samples = 0
    /\ vad_over_count = 0 /\ vad_under_count = 0
    /\ preroll_index = 0 /\ preroll_filled = FALSE
    /\ last_audio_heartbeat = 0
    /\ start_epoch = 0 /\ force_stop_samples = 0
    /\ over_frames = 0
    /\ cap_seq = 0
    /\ item = NoItem
    /\ attempt_epoch = 0
    /\ batch_i = 0
    /\ free_pct = 0
    /\ wm = NoManifest
    /\ wm_ret = ""
    /\ latest = [s \in Seqs |-> IF \E m \in ms : m.seq = s
                                 THEN CHOOSE m \in ms : m.seq = s ELSE NoManifest]
    /\ ingest_acks = [s \in Seqs |-> 0]
    /\ failed_attempts = [s \in Seqs |-> 0]
    /\ reboots = 0
    /\ io_faults = 0
    /\ issued = <<>>
    /\ attempt_wall = [s \in Seqs |-> 0]
    /\ attempts_started = [s \in Seqs |-> 0]
    /\ over_run = 0
    /\ audio_preroll = EmptyRing /\ audio_file = <<>> /\ frames_read = 0

\* The state when power is first applied: NVS and the card are empty.
Boot(mics, cams, sds) == BootOn(mics, cams, sds, BaseUsedChoices, 0, {}, {})

\* the board without a working microphone: init_audio() fails, audio_ok stays false
Init == Boot({FALSE}, BOOLEAN, BOOLEAN)

\* where capture_and_save returns to
CapRet == IF in_setup THEN "setup_net" ELSE "loop"

\* --------------------------------------------------------------- setup()
\* setup() up to the call of capture_and_save: the hardware answers.
Setup ==
    /\ pc = "boot"
    /\ uptime' = BootUptimeSec
    /\ wall' = wall + BootUptimeSec
    /\ camera_ok' = cam_present
    /\ sd_ok' = sd_present
    /\ audio_ok' = mic_present
    /\ pc' = "setup_capture"
    /\ UNCHANGED <<ringVars, diskVars, in_setup, wifi_ok, ntp_synced, capture_paused,
                   audio_recording, clipVars, recVars, micVars, timerVars, startVars,
                   localVars, histVars>>

\* setup(): connect_wifi_best_effort() and sync_time_best_effort()
SetupNet ==
    /\ pc = "setup_net"
    /\ \E w \in BOOLEAN, n \in BOOLEAN :
          /\ wifi_ok' = w
          /\ ntp_synced' = IF w THEN n ELSE FALSE
    /\ in_setup' = FALSE
    /\ pc' = "loop"
    /\ UNCHANGED <<ringVars, diskVars, clockVars, sd_ok, camera_ok, capture_paused, audioVars,
                   localVars, histVars>>

\* ------------------------------------------------- write_manifest_atomic
\* A caller starts the call by setting wm (the payload), wm_ret and pc = "wm_open".
\* Lines 234-250: open <seq>.json.tmp for writing, print the payload, flush, close.
WM_WriteTmp ==
    /\ pc = "wm_open"
    /\ tmps' = tmps \cup {wm.seq}
    /\ pc' = "wm_replace"
    /\ UNCHANGED <<ringVars, nvs_seq, files, manifests, base_used, hwVars, clockVars, in_setup, flagVars,
                   audioVars, localVars, histVars>>

\* Lines 256-258: if the final path exists, remove it.
WM_RemoveFinal ==
    /\ pc = "wm_replace"
    /\ manifests' = manifests \ ManifestAt(wm.seq)
    /\ pc' = "wm_rename"
    /\ UNCHANGED <<ringVars, nvs_seq, files, tmps, base_used, hwVars, clockVars, in_setup, flagVars,
                   audioVars, localVars, histVars>>

\* Lines 259-263: rename tmp -> final, return true.
WM_Rename ==
    /\ pc = "wm_rename"
    /\ manifests' = manifests \cup {wm}
    /\ tmps' = tmps \ {wm.seq}
    /\ latest' = [latest EXCEPT ![wm.seq] = wm]
    /\ pc' = wm_ret
    /\ UNCHANGED <<ringVars, nvs_seq, files, base_used, hwVars, clockVars, in_setup, flagVars, audioVars,
                   localVars, ingest_acks, failed_attempts, reboots, io_faults, issued, attempt_wall, attempts_started, over_run>>

\* ------------------------------------------------------ capture_and_save
\* get_next_seq(), line 126: seq = prefs.getUInt("seq", 0)
get_next_seq == nvs_seq

\* get_next_seq(), line 127: the value prefs.putUInt("seq", ...) stores
seq_stored_plain(seq) == seq
seq_stored(seq) == seq + 1

\* Lines 1055-1063 when the call returns false before anything is written:
\* called from setup() it moves on to the network part (from loop() nothing changes).
CaptureSkip ==
    /\ pc = "setup_capture"
    /\ pc' = CapRet
    /\ UNCHANGED <<ringVars, diskVars, clockVars, in_setup, flagVars, audioVars, localVars, histVars>>

\* line 1057 left out
CapturePaused_never == FALSE

\* capture_and_save, line 1057
CapturePaused == capture_paused

\* Lines 1055-1065: the guards, the frame buffer, get_next_seq().
CaptureBegin ==
    /\ pc \in {"setup_capture", "loop"}
    /\ sd_ok /\ camera_ok
    /\ ~CapturePaused
    /\ nvs_seq < MaxSeq
    /\ cap_seq' = get_next_seq
    /\ pc' = "cap_seq_put"
    /\ UNCHANGED <<ringVars, diskVars, clockVars, in_setup, flagVars,
                   audioVars, item, attempt_epoch, batch_i, free_pct, wm, wm_ret, histVars>>

\* get_next_seq(), lines 127-128, called by capture_and_save (line 1065) or by
\* start_audio_recording (line 528): store seq + 1 under "seq" and return seq.
SeqPut ==
    /\ pc \in {"cap_seq_put", "aud_seq_put"}
    /\ LET seq == IF pc = "cap_seq_put" THEN cap_seq ELSE audio_seq
       IN /\ nvs_seq' = seq_stored(seq)
          /\ issued' = Append(issued, seq)
    /\ pc' = IF pc = "cap_seq_put" THEN "cap_write" ELSE "aud_open"
    /\ UNCHANGED <<ringVars, files, manifests, tmps, base_used, hwVars, clockVars, in_setup, flagVars,
                   audioVars, localVars, latest, ingest_acks, failed_attempts, reboots,
                   io_faults, attempt_wall, attempts_started, over_run>>

\* Lines 1066-1089: create the file and write the frame; a card with less room than
\* the frame takes yields a short write, and the call returns false (the file stays).
\* Otherwise captured_epoch = now_epoch() and the PENDING manifest is written.
CaptureWrite ==
    /\ pc = "cap_write"
    /\ LET room == TotalUnits - UsedUnits(files)
           path == PhotoPath(cap_seq)
       IN IF room < FileUnits
          THEN /\ files' = files \cup {[path |-> path, units |-> room]}
               /\ pc' = CapRet
               /\ cap_seq' = 0
               /\ UNCHANGED <<wm, wm_ret>>
          ELSE /\ files' = files \cup {[path |-> path, units |-> FileUnits]}
               /\ wm' = ManifestPayload(cap_seq, path, now_epoch, "PENDING", "photo",
                                        "image/jpeg", 0, 0)
               /\ wm_ret' = "cap_done"
               /\ pc' = "wm_open"
               /\ UNCHANGED cap_seq
    /\ UNCHANGED <<ringVars, nvs_seq, manifests, tmps, base_used, hwVars, clockVars, in_setup,
                   flagVars, audioVars, item, attempt_epoch, batch_i, free_pct, histVars>>

\* Lines 1091-1098: raise the photo-clip flag when audio is idle; return true.
CaptureDone ==
    /\ pc = "cap_done"
    /\ IF audio_ok /\ ~audio_recording
       THEN /\ audio_photo_clip_pending' = TRUE
            /\ audio_photo_clip_epoch' = wm.captured_at_epoch
       ELSE UNCHANGED <<audio_photo_clip_pending, audio_photo_clip_epoch>>
    /\ pc' = CapRet
    /\ cap_seq' = 0 /\ wm' = NoManifest /\ wm_ret' = ""
    /\ UNCHANGED <<ringVars, diskVars, clockVars, in_setup, flagVars, audio_ok, audio_recording,
                   audio_heartbeat_pending, recVars, micVars, timerVars, startVars, item, attempt_epoch, batch_i, free_pct, histVars>>

\* ------------------------------------------------------------ environment
\* Time passes between two iterations of loop().
Tick ==
    /\ pc = "loop"
    /\ \E d \in TimeSteps :
          /\ (wall - WallBase) + d <= MaxElapsed
          /\ wall' = wall + d
          /\ uptime' = uptime + d
    /\ UNCHANGED <<ringVars, diskVars, pc, in_setup, flagVars, audioVars, localVars, histVars>>

\* Power is lost and restored: NVS and the card keep their contents, every static
\* gets its initializer again (lines 56-88) and setup() starts.
PowerLoss ==
    /\ pc # "boot"
    /\ reboots < MaxReboots
    /\ reboots' = reboots + 1
    /\ pc' = "boot"
    /\ in_setup' = TRUE
    /\ uptime' = 0
    /\ sd_ok' = FALSE /\ camera_ok' = FALSE /\ wifi_ok' = FALSE
    /\ ntp_synced' = FALSE /\ capture_paused' = FALSE
    /\ audio_ok' = FALSE /\ audio_recording' = FALSE
    /\ audio_photo_clip_pending' = FALSE /\ audio_photo_clip_epoch' = 0
    /\ audio_heartbeat_pending' = FALSE
    /\ audio_filepath' = NoPath /\ audio_start_epoch' = 0 /\ audio_seq' = 0
    /\ audio_samples_written' = 0
    /\ audio_force_active' = FALSE /\ audio_force_stop_samples' = 0
    /\ vad_over_count' = 0 /\ vad_under_count' = 0
    /\ preroll_index' = 0 /\ preroll_filled' = FALSE
    /\ last_audio_heartbeat' = 0
    /\ start_epoch' = 0 /\ force_stop_samples' = 0
    /\ over_frames' = 0 /\ over_run' = 0
    /\ audio_preroll' = EmptyRing /\ audio_file' = <<>>
    /\ cap_seq' = 0
    /\ item' = NoItem
    /\ attempt_epoch' = 0
    /\ batch_i' = 0
    /\ free_pct' = 0
    /\ wm' = NoManifest
    /\ wm_ret' = ""
    /\ UNCHANGED <<frames_read, diskVars, wall, latest, ingest_acks, failed_attempts, io_faults, issued, attempt_wall, attempts_started>>

\* loop(), lines 1168, 1176, 1197, 1202, 1207: the condition "!audio_recording" on the
\* Wi-Fi reconnect, the NTP sync, the upload batch, the retention sweep and telemetry
AudioIdle_any == TRUE
AudioIdle == ~audio_recording

\* loop(), lines 1168-1174: Wi-Fi reconnect
WifiReconnect ==
    /\ pc = "loop"
    /\ ~wifi_ok /\ AudioIdle
    /\ wifi_ok' = TRUE
    /\ UNCHANGED <<ringVars, diskVars, clockVars, pc, in_setup, sd_ok, camera_ok, ntp_synced,
                   capture_paused, audioVars, localVars, histVars>>

\* loop(), lines 1176-1180: NTP sync
NtpSync ==
    /\ pc = "loop"
    /\ wifi_ok /\ ~ntp_synced /\ AudioIdle
    /\ ntp_synced' = TRUE
    /\ UNCHANGED <<ringVars, diskVars, clockVars, pc, in_setup, sd_ok, camera_ok, wifi_ok,
                   capture_paused, audioVars, localVars, histVars>>

\* ---------------------------------------------------- directory listing
\* root.openNextFile() yields the entries of /manifests in an order the filesystem
\* chooses: every enumeration of the manifests present.
RECURSIVE Orders(_)
Orders(S) ==
    IF S = {} THEN {<<>>}
    ELSE UNION {{<<m>> \o o : o \in Orders(S \ {m})} : m \in S}

\* ------------------------------------------------------ find_oldest_pending
\* the status filter of line 673 left out
PendingStatus_any(status) == TRUE

\* line 673
PendingStatus(status) == status = "PENDING"

\* line 675
OverLimit(it) == it.upload_attempts >= UPLOAD_MAX_ATTEMPTS

backoff_seconds(attempts) ==
    IF attempts <= 0 THEN 0
    ELSE IF attempts = 1 THEN UPLOAD_BACKOFF_SEC_1
    ELSE IF attempts = 2 THEN UPLOAD_BACKOFF_SEC_2
    ELSE UPLOAD_BACKOFF_SEC_3

\* lines 689-692 with the difference taken as unsigned: a clock that went back counts
\* as a long wait
InBackoff_unsigned(it, now) ==
    LET backoff == backoff_seconds(it.upload_attempts)
    IN backoff > 0 /\ now >= it.last_attempt_epoch /\ (now - it.last_attempt_epoch) < backoff

\* lines 689-692
InBackoff(it, now) ==
    LET backoff == backoff_seconds(it.upload_attempts)
    IN backoff > 0 /\ (now - it.last_attempt_epoch) < backoff

\* lines 694-703 keeping the first candidate found
BetterPending_first(it, found, best_epoch, best_seq) == ~found

\* lines 694-703 without line 699: a timestamped candidate does not replace an unsynced one
BetterPending_unsynced(it, found, best_epoch, best_seq) ==
    IF ~found THEN TRUE
    ELSE IF it.captured_epoch > 0 /\ best_epoch > 0 THEN it.captured_epoch < best_epoch
    ELSE IF it.captured_epoch = 0 /\ best_epoch = 0 THEN it.seq < best_seq
    ELSE FALSE

\* lines 694-703
BetterPending(it, found, best_epoch, best_seq) ==
    IF ~found THEN TRUE
    ELSE IF it.captured_epoch > 0 /\ best_epoch > 0 THEN it.captured_epoch < best_epoch
    ELSE IF it.captured_epoch > 0 /\ best_epoch = 0 THEN TRUE
    ELSE IF it.captured_epoch = 0 /\ best_epoch = 0 THEN it.seq < best_seq
    ELSE FALSE

\* The scan of lines 664-711 over the listing `order` from entry i on, with the
\* result so far in acc = [found, out].  (The over-limit entries it rewrites as
\* FAILED on the way are the action UploadFindGC.)
RECURSIVE ScanPending(_, _, _, _)
ScanPending(order, i, now, acc) ==
    IF i > Len(order) THEN acc
    ELSE LET it == load_manifest(order[i])
         IN IF ~PendingStatus(order[i].status) THEN ScanPending(order, i + 1, now, acc)
            ELSE IF OverLimit(it) THEN ScanPending(order, i + 1, now, acc)
            ELSE IF InBackoff(it, now) THEN ScanPending(order, i + 1, now, acc)
            ELSE IF BetterPending(it, acc.found, acc.out.captured_epoch, acc.out.seq)
                 THEN ScanPending(order, i + 1, now, [found |-> TRUE, out |-> it])
                 ELSE ScanPending(order, i + 1, now, acc)

find_oldest_pending(order, now) ==
    ScanPending(order, 1, now, [found |-> FALSE, out |-> NoItem])

\* ----------------------------------------------------- find_oldest_uploaded
\* the status filter of line 735 left out
UploadedStatus_any(status) == TRUE

\* line 735
UploadedStatus(status) == status = "UPLOADED"

\* lines 737-746 with the comparison of line 741 turned round
BetterUploaded_newest(it, found, best_epoch, best_seq) ==
    IF ~found THEN TRUE
    ELSE IF it.captured_epoch > 0 /\ best_epoch > 0 THEN it.captured_epoch > best_epoch
    ELSE IF it.captured_epoch > 0 /\ best_epoch = 0 THEN TRUE
    ELSE IF it.captured_epoch = 0 /\ best_epoch = 0 THEN it.seq < best_seq
    ELSE FALSE

\* lines 737-746
BetterUploaded(it, found, best_epoch, best_seq) ==
    IF ~found THEN TRUE
    ELSE IF it.captured_epoch > 0 /\ best_epoch > 0 THEN it.captured_epoch < best_epoch
    ELSE IF it.captured_epoch > 0 /\ best_epoch = 0 THEN TRUE
    ELSE IF it.captured_epoch = 0 /\ best_epoch = 0 THEN it.seq < best_seq
    ELSE FALSE

RECURSIVE ScanUploaded(_, _, _)
ScanUploaded(order, i, acc) ==
    IF i > Len(order) THEN acc
    ELSE LET it == load_manifest(order[i])
         IN IF ~UploadedStatus(order[i].status) THEN ScanUploaded(order, i + 1, acc)
            ELSE IF BetterUploaded(it, acc.found, acc.out.captured_epoch, acc.out.seq)
                 THEN ScanUploaded(order, i + 1, [found |-> TRUE, out |-> it])
                 ELSE ScanUploaded(order, i + 1, acc)

find_oldest_uploaded(order) ==
    ScanUploaded(order, 1, [found |-> FALSE, out |-> NoItem])

\* ------------------------------------------------------------ upload engine
\* loop(), lines 1197-1200, and upload_batch(): the batch starts with i = 0.
UploadBatchBegin ==
    /\ pc = "loop"
    /\ AudioIdle
    /\ batch_i' = 0
    /\ pc' = "up_one"
    /\ UNCHANGED <<ringVars, diskVars, clockVars, in_setup, flagVars, audioVars, cap_seq, item,
                   attempt_epoch, free_pct, wm, wm_ret, histVars>>

\* upload_one_pending, line 1002: returns false, which ends the batch.
UploadOneSkip ==
    /\ pc = "up_one"
    /\ ~sd_ok \/ ~wifi_ok
    /\ pc' = "loop"
    /\ UNCHANGED <<ringVars, diskVars, clockVars, in_setup, flagVars, audioVars, localVars, histVars>>

OverLimitPending == {m \in manifests : PendingStatus(m.status) /\ OverLimit(load_manifest(m))}

\* find_oldest_pending, lines 675-687: a PENDING manifest at the attempt limit is
\* rewritten as FAILED and skipped; the scan goes on.
UploadFindGC ==
    /\ pc = "up_one"
    /\ sd_ok /\ wifi_ok
    /\ \E m \in OverLimitPending :
          LET it == load_manifest(m)
          IN wm' = ManifestPayload(it.seq, it.filepath, it.captured_epoch, "FAILED",
                                   it.item_type, it.content_type, it.upload_attempts,
                                   it.last_attempt_epoch)
    /\ wm_ret' = "up_one"
    /\ pc' = "wm_open"
    /\ UNCHANGED <<ringVars, diskVars, clockVars, in_setup, flagVars, audioVars, cap_seq, item,
                   attempt_epoch, batch_i, free_pct, histVars>>

\* upload_one_pending, lines 1004-1007: nothing eligible, return false.
UploadFindNone ==
    /\ pc = "up_one"
    /\ sd_ok /\ wifi_ok
    /\ OverLimitPending = {}
    /\ \A order \in Orders(manifests) : ~find_oldest_pending(order, now_epoch).found
    /\ pc' = "loop"
    /\ UNCHANGED <<ringVars, diskVars, clockVars, in_setup, flagVars, audioVars, localVars, histVars>>

\* line 1010: the attempt count written before the network is used
BumpAttempts(it) == it.upload_attempts + 1

\* upload_one_pending, lines 1004-1010: the oldest eligible PENDING manifest is
\* selected and rewritten with the attempt counted.
UploadSelect ==
    /\ pc = "up_one"
    /\ sd_ok /\ wifi_ok
    /\ OverLimitPending = {}
    /\ \E order \in Orders(manifests) :
          LET r == find_oldest_pending(order, now_epoch)
          IN /\ r.found
             /\ item' = r.out
             /\ wm' = update_manifest_status(r.out, "PENDING", BumpAttempts(r.out), now_epoch)
    /\ attempt_epoch' = now_epoch
    /\ wm_ret' = "up_request"
    /\ pc' = "wm_open"
    /\ UNCHANGED <<ringVars, diskVars, clockVars, in_setup, flagVars, audioVars, cap_seq, batch_i,
                   free_pct, histVars>>

\* lines 1016, 1025, 1034, 1040 writing the count that was read before the attempt
AttemptsAfter_stale(it) == it.upload_attempts

\* lines 1016, 1025, 1034, 1040: the attempt count written when the attempt ends
AttemptsAfter(it) == it.upload_attempts + 1

\* line 1015 with > for >=
FailStatus_gt(it) ==
    IF it.upload_attempts + 1 > UPLOAD_MAX_ATTEMPTS THEN "FAILED" ELSE "PENDING"

\* lines 1015-1019 (and 1024-1028, 1033-1037): the status written after a failed step
FailStatus(it) ==
    IF it.upload_attempts + 1 >= UPLOAD_MAX_ATTEMPTS THEN "FAILED" ELSE "PENDING"

FailWrite ==
    /\ wm' = update_manifest_status(item, FailStatus(item), AttemptsAfter(item),
                                    attempt_epoch)
    /\ wm_ret' = "up_failed"
    /\ pc' = "wm_open"

\* lines 1012-1021: request_upload_target answers, or fails.
UploadRequest ==
    /\ pc = "up_request"
    /\ \E ok \in BOOLEAN :
          IF ok THEN pc' = "up_stream" /\ UNCHANGED <<wm, wm_ret>>
          ELSE FailWrite
    /\ attempt_wall' = [attempt_wall EXCEPT ![item.seq] = wall]
    /\ attempts_started' = [attempts_started EXCEPT ![item.seq] = @ + 1]
    /\ UNCHANGED <<ringVars, diskVars, clockVars, in_setup, flagVars, audioVars, cap_seq, item,
                   attempt_epoch, batch_i, free_pct, latest, ingest_acks, failed_attempts,
                   reboots, io_faults, issued, over_run>>

\* lines 1023-1030: stream_upload; it fails at once when the artifact cannot be opened.
UploadStream ==
    /\ pc = "up_stream"
    /\ \E ok \in BOOLEAN :
          IF ok /\ FileExists(item.filepath)
          THEN pc' = "up_ingest" /\ UNCHANGED <<wm, wm_ret>>
          ELSE FailWrite
    /\ UNCHANGED <<ringVars, diskVars, clockVars, in_setup, flagVars, audioVars, cap_seq, item,
                   attempt_epoch, batch_i, free_pct, histVars>>

\* lines 1032-1041: notify_ingest; HTTP 200 is success and UPLOADED is written.
UploadIngest ==
    /\ pc = "up_ingest"
    /\ \E code200 \in BOOLEAN :
          IF code200
          THEN /\ ingest_acks' = [ingest_acks EXCEPT ![item.seq] = @ + 1]
               /\ wm' = update_manifest_status(item, "UPLOADED", AttemptsAfter(item),
                                               attempt_epoch)
               /\ wm_ret' = "up_done"
               /\ pc' = "wm_open"
          ELSE FailWrite /\ UNCHANGED ingest_acks
    /\ UNCHANGED <<ringVars, diskVars, clockVars, in_setup, flagVars, audioVars, cap_seq, item,
                   attempt_epoch, batch_i, free_pct, latest, failed_attempts, reboots, io_faults, issued, attempt_wall, attempts_started, over_run>>

\* upload_batch, line 1047 with <= for <
BatchGoesOn_le(i) == i <= UPLOAD_BATCH_SIZE

\* upload_batch, line 1047: the loop condition
BatchGoesOn(i) == i < UPLOAD_BATCH_SIZE

\* upload_one_pending returned true: upload_batch goes on while i < UPLOAD_BATCH_SIZE.
UploadDone ==
    /\ pc = "up_done"
    /\ batch_i' = batch_i + 1
    /\ pc' = IF BatchGoesOn(batch_i + 1) THEN "up_one" ELSE "loop"
    /\ item' = NoItem /\ attempt_epoch' = 0 /\ wm' = NoManifest /\ wm_ret' = ""
    /\ UNCHANGED <<ringVars, diskVars, clockVars, in_setup, flagVars, audioVars, cap_seq,
                   free_pct, histVars>>

\* upload_one_pending returned false after a failed step: upload_batch breaks.
UploadFailed ==
    /\ pc = "up_failed"
    /\ failed_attempts' = [failed_attempts EXCEPT ![item.seq] = @ + 1]
    /\ pc' = "loop"
    /\ item' = NoItem /\ attempt_epoch' = 0 /\ wm' = NoManifest /\ wm_ret' = ""
    /\ UNCHANGED <<ringVars, diskVars, clockVars, in_setup, flagVars, audioVars, cap_seq,
                   batch_i, free_pct, latest, ingest_acks, reboots, io_faults, issued, attempt_wall, attempts_started, over_run>>

\* -------------------------------------------------------- enforce_retention
\* loop(), lines 1202-1205, and enforce_retention, lines 769-771.
RetentionBegin ==
    /\ pc = "loop"
    /\ AudioIdle
    /\ sd_ok
    /\ free_pct' = free_percent(files)
    /\ pc' = "ret_check"
    /\ UNCHANGED <<ringVars, diskVars, clockVars, in_setup, flagVars, audioVars, cap_seq, item,
                   attempt_epoch, batch_i, wm, wm_ret, histVars>>

\* line 779 with <= for <
NeedsSpace_le(pct) == pct <= SD_MIN_FREE_PERCENT

\* line 779: the loop condition of the sweep
NeedsSpace(pct) == pct < SD_MIN_FREE_PERCENT

\* lines 772-775
RetentionCheck ==
    /\ pc = "ret_check"
    /\ IF ~(free_pct < SD_MIN_FREE_PERCENT)
       THEN capture_paused' = FALSE /\ pc' = "loop" /\ free_pct' = 0
       ELSE UNCHANGED <<capture_paused, free_pct>> /\ pc' = "ret_loop"
    /\ UNCHANGED <<ringVars, diskVars, clockVars, in_setup, sd_ok, camera_ok, wifi_ok, ntp_synced,
                   audioVars, cap_seq, item, attempt_epoch, batch_i, wm, wm_ret, histVars>>

HasUploaded == \E m \in manifests : UploadedStatus(m.status)

\* lines 779-783: the loop goes on and find_oldest_uploaded finds an item.
RetentionPick ==
    /\ pc = "ret_loop"
    /\ NeedsSpace(free_pct)
    /\ \E order \in Orders(manifests) :
          LET r == find_oldest_uploaded(order)
          IN r.found /\ item' = r.out
    /\ pc' = "ret_rm_file"
    /\ UNCHANGED <<ringVars, diskVars, clockVars, in_setup, flagVars, audioVars, cap_seq,
                   attempt_epoch, batch_i, free_pct, wm, wm_ret, histVars>>

\* lines 785-787
RetentionRemoveFile ==
    /\ pc = "ret_rm_file"
    /\ files' = files \ FileAt(item.filepath)
    /\ pc' = "ret_rm_manifest"
    /\ UNCHANGED <<ringVars, nvs_seq, manifests, tmps, base_used, hwVars, clockVars, in_setup, flagVars,
                   audioVars, localVars, histVars>>

\* lines 788-792
RetentionRemoveManifest ==
    /\ pc = "ret_rm_manifest"
    /\ manifests' = manifests \ ManifestAt(item.manifest_path)
    /\ free_pct' = free_percent(files)
    /\ item' = NoItem
    /\ pc' = "ret_loop"
    /\ UNCHANGED <<ringVars, nvs_seq, files, tmps, base_used, hwVars, clockVars, in_setup, flagVars,
                   audioVars, cap_seq, attempt_epoch, batch_i, wm, wm_ret, histVars>>

\* line 796 with the sweep's threshold for the emergency one
Emergency_min(pct) == pct < SD_MIN_FREE_PERCENT

\* line 796
Emergency(pct) == pct < SD_EMERGENCY_FREE_PERCENT

\* lines 779-782 and 795-799: the loop ends; capture is paused below the emergency level.
RetentionEnd ==
    /\ pc = "ret_loop"
    /\ ~NeedsSpace(free_pct) \/ ~HasUploaded
    /\ capture_paused' = Emergency(free_pct)
    /\ pc' = "loop"
    /\ free_pct' = 0
    /\ UNCHANGED <<ringVars, diskVars, clockVars, in_setup, sd_ok, camera_ok, wifi_ok, ntp_synced,
                   audioVars, cap_seq, item, attempt_epoch, batch_i, wm, wm_ret, histVars>>

\* ------------------------------------------------------------ specification
Next ==
    \/ Setup
    \/ SetupNet
    \/ CaptureSkip
    \/ CaptureBegin
    \/ SeqPut
    \/ CaptureWrite
    \/ CaptureDone
    \/ WM_WriteTmp
    \/ WM_RemoveFinal
    \/ WM_Rename
    \/ UploadBatchBegin
    \/ UploadOneSkip
    \/ UploadFindGC
    \/ UploadFindNone
    \/ UploadSelect
    \/ UploadRequest
    \/ UploadStream
    \/ UploadIngest
    \/ UploadDone
    \/ UploadFailed
    \/ RetentionBegin
    \/ RetentionCheck
    \/ RetentionPick
    \/ RetentionRemoveFile
    \/ RetentionRemoveManifest
    \/ RetentionEnd
    \/ WifiReconnect
    \/ NtpSync
    \/ Tick
    \/ PowerLoss

Spec == Init /\ [][Next]_vars

\* ------------------------------------------------- storage operations fail
\* write_manifest_atomic, line 235 (the tmp file cannot be opened) and lines
\* 248-254 (nothing was written: the tmp file is removed): return false.
WM_WriteFail ==
    /\ pc = "wm_open"
    /\ io_faults < MaxFaults
    /\ io_faults' = io_faults + 1
    /\ \E opened \in BOOLEAN : tmps' = IF opened THEN tmps \ {wm.seq} ELSE tmps
    /\ pc' = wm_ret
    /\ UNCHANGED <<ringVars, nvs_seq, files, manifests, base_used, hwVars, clockVars, in_setup, flagVars,
                   audioVars, localVars, latest, ingest_acks, failed_attempts, reboots, issued, attempt_wall, attempts_started, over_run>>

\* write_manifest_atomic, lines 259-262: the rename fails after the final file was
\* removed; the tmp file is removed and the call returns false.
WM_RenameFail ==
    /\ pc = "wm_rename"
    /\ io_faults < MaxFaults
    /\ io_faults' = io_faults + 1
    /\ tmps' = tmps \ {wm.seq}
    /\ pc' = wm_ret
    /\ UNCHANGED <<ringVars, nvs_seq, files, manifests, base_used, hwVars, clockVars, in_setup, flagVars,
                   audioVars, localVars, latest, ingest_acks, failed_attempts, reboots, issued, attempt_wall, attempts_started, over_run>>

\* capture_and_save, lines 1072-1086: the file cannot be opened (nothing is created),
\* or the write is short (the file stays); the call returns false.
CaptureWriteFail ==
    /\ pc = "cap_write"
    /\ io_faults < MaxFaults
    /\ io_faults' = io_faults + 1
    /\ \E opened \in BOOLEAN :
          files' = IF opened
                   THEN files \cup {[path |-> PhotoPath(cap_seq), units |-> 0]}
                   ELSE files
    /\ cap_seq' = 0
    /\ pc' = CapRet
    /\ UNCHANGED <<ringVars, nvs_seq, manifests, tmps, base_used, hwVars, clockVars, in_setup, flagVars,
                   audioVars, item, attempt_epoch, batch_i, free_pct, wm, wm_ret,
                   latest, ingest_acks, failed_attempts, reboots, issued, attempt_wall, attempts_started, over_run>>

NextIO ==
    \/ Next
    \/ WM_WriteFail
    \/ WM_RenameFail
    \/ CaptureWriteFail

\* The device with storage operations that can fail.
SpecIO == Init /\ [][NextIO]_vars

\* ------------------------------------------------------ millis() rolls over
\* millis() is a 32-bit count of milliseconds: millis() / 1000 (line 109) is
\* 2^32 \div 1000 = 4294967 just before it wraps and 0 just after.
MillisWrapSec == 4294967

\* loop() keeps running until millis() wraps; a run covers one such period.
MillisRollover ==
    /\ pc = "loop"
    /\ wall - WallBase < MillisWrapSec
    /\ wall' = wall + (MillisWrapSec - uptime) + 1
    /\ uptime' = 0
    /\ UNCHANGED <<ringVars, diskVars, pc, in_setup, flagVars, audioVars, localVars, histVars>>

NextRollover ==
    \/ Next
    \/ MillisRollover

\* The device over a run long enough for millis() to wrap.
SpecRollover == Init /\ [][NextRollover]_vars

\* ===================================================================== audio
\* The board with a working microphone: init_audio() succeeds, audio_tick() runs
\* at the top of every loop() iteration and the flags of lines 1092-1097 and
\* 1187-1195 start forced clips.
InitAudio == Boot({TRUE}, BOOLEAN, BOOLEAN)

\* A frame against the two thresholds of audio_tick: "over" is
\* rms > noise_rms * AUDIO_RMS_START_MULT, "under" is rms < noise_rms * AUDIO_RMS_STOP_MULT.
Levels == {"under", "mid", "over"}

\* ms_to_samples(ms)
ms_to_samples(ms) == (AUDIO_SAMPLE_RATE * ms) \div 1000

\* adjust_start_epoch(epoch)
adjust_start_epoch_always(epoch) == epoch - (AUDIO_PREROLL_MS \div 1000)
adjust_start_epoch(epoch) ==
    LET preroll_sec == AUDIO_PREROLL_MS \div 1000
    IN IF preroll_sec = 0 THEN epoch
       ELSE IF epoch > preroll_sec THEN epoch - preroll_sec ELSE epoch

\* build_audio_folder() + build_audio_filename(seq)
AudioPath(seq) ==
    IF ~ntp_synced
    THEN [folder |-> "/unsynced_audio", stamp |-> 0, seq |-> seq, ext |-> ".wav"]
    ELSE [folder |-> "/audio/YYYYMMDD", stamp |-> wall, seq |-> seq, ext |-> ".wav"]

\* preroll_write(): the samples the ring holds
preroll_available == IF preroll_filled THEN kAudioPrerollSamples ELSE preroll_index

\* the smallest k >= 1 with written + k * kAudioFrameSamples >= target
FramesUntil(written, target) ==
    IF target <= written + kAudioFrameSamples THEN 1
    ELSE ((target - written) + (kAudioFrameSamples - 1)) \div kAudioFrameSamples

Min(a, b) == IF a <= b THEN a ELSE b

\* over_run after n more frames of one level
RunAfter(run, level, n) ==
    IF level = "over" THEN Min(run + n, AUDIO_VAD_START_FRAMES) ELSE 0

\* loop(), lines 1187-1195: the heartbeat timer is due
HeartbeatGate_any == TRUE
HeartbeatGate == ~audio_recording /\ ~audio_heartbeat_pending

HeartbeatDue ==
    /\ pc = "loop"
    /\ audio_ok
    /\ HeartbeatGate
    /\ uptime * 1000 - last_audio_heartbeat >= AUDIO_HEARTBEAT_INTERVAL_MS
    /\ audio_heartbeat_pending' = TRUE
    /\ last_audio_heartbeat' = uptime * 1000
    /\ UNCHANGED <<ringVars, diskVars, clockVars, pc, in_setup, flagVars, audio_ok, audio_recording,
                   audio_photo_clip_pending, audio_photo_clip_epoch, recVars, micVars,
                   startVars, localVars, histVars>>

\* audio_tick(), lines 578-598, audio idle and a flag pending: the flag is consumed
\* (the photo clip first) and start_audio_recording is called with the forced length;
\* lines 525-528: it returns false when the card is off or capture is paused,
\* otherwise it reads the next seq.
ClipFirst_heartbeat == ~audio_heartbeat_pending
ClipFirst == audio_photo_clip_pending

AudioTickForcedCore ==
    /\ pc = "loop"
    /\ audio_ok /\ ~audio_recording
    /\ audio_photo_clip_pending \/ audio_heartbeat_pending
    /\ (sd_ok /\ ~capture_paused) => nvs_seq < MaxSeq
    /\ LET clip == ClipFirst
           force_samples == kAudioPrerollSamples +
                            ms_to_samples(IF clip THEN AUDIO_PHOTO_CLIP_POST_MS
                                                  ELSE AUDIO_HEARTBEAT_DURATION_MS)
           force_epoch == IF clip THEN audio_photo_clip_epoch ELSE now_epoch
       IN /\ IF clip
             THEN audio_photo_clip_pending' = FALSE /\ UNCHANGED audio_heartbeat_pending
             ELSE audio_heartbeat_pending' = FALSE /\ UNCHANGED audio_photo_clip_pending
          /\ IF sd_ok /\ ~capture_paused
             THEN /\ audio_seq' = get_next_seq
                  /\ start_epoch' = force_epoch
                  /\ force_stop_samples' = force_samples
                  /\ pc' = "aud_seq_put"
             ELSE UNCHANGED <<audio_seq, startVars, pc>>
    /\ \E level \in Levels : over_run' = RunAfter(over_run, level, 1)
    /\ UNCHANGED <<diskVars, clockVars, in_setup, flagVars, audio_ok, audio_recording,
                   audio_photo_clip_epoch, audio_filepath, audio_start_epoch,
                   audio_samples_written, audio_force_active, audio_force_stop_samples,
                   vad_under_count, micVars, localVars, timerVars, progHist>>

\* the same step where only the sample counts are followed
AudioTickForced == AudioTickForcedCore /\ UNCHANGED ringVars

\* audio_tick(), lines 600-621, audio idle, no flag pending, frames that are not over
\* the start threshold (FramesPerStep of them): each goes into the preroll ring
\* (preroll_push) and clears vad_over_count.
AudioTickIdleQuietCore ==
    /\ pc = "loop"
    /\ audio_ok /\ ~audio_recording
    /\ ~audio_photo_clip_pending /\ ~audio_heartbeat_pending
    /\ LET pushed == preroll_index + FramesPerStep * kAudioFrameSamples
       IN /\ preroll_index' = pushed % kAudioPrerollSamples
          /\ preroll_filled' = (preroll_filled \/ pushed >= kAudioPrerollSamples)
    /\ vad_over_count' = 0
    /\ over_run' = 0
    /\ UNCHANGED <<diskVars, clockVars, pc, in_setup, flagVars, audio_ok, audio_recording,
                   clipVars, recVars, over_frames, startVars, localVars, timerVars, progHist>>

\* the same step where only the sample counts are followed
AudioTickIdleQuiet == AudioTickIdleQuietCore /\ UNCHANGED ringVars

\* audio_tick(), lines 600-621, audio idle, no flag pending, one frame over the start
\* threshold: it goes into the preroll ring and is counted; AUDIO_VAD_START_FRAMES such
\* frames in a row call start_audio_recording(now_epoch(), 0), which returns false
\* when the card is off or capture is paused (lines 525-526) and otherwise reads the
\* next seq.
VadStarts_three(over) == over >= AUDIO_VAD_START_FRAMES - 1
VadStarts(over) == over >= AUDIO_VAD_START_FRAMES

AudioTickIdleOverCore ==
    /\ pc = "loop"
    /\ audio_ok /\ ~audio_recording
    /\ ~audio_photo_clip_pending /\ ~audio_heartbeat_pending
    /\ over_frames < MaxOverFrames
    /\ LET pushed == preroll_index + kAudioFrameSamples
           over == vad_over_count + 1
           starts == VadStarts(over) /\ sd_ok /\ ~capture_paused
       IN /\ starts => nvs_seq < MaxSeq
          /\ preroll_index' = pushed % kAudioPrerollSamples
          /\ preroll_filled' = (preroll_filled \/ pushed >= kAudioPrerollSamples)
          /\ over_frames' = over_frames + 1
          /\ vad_over_count' = over
          /\ IF starts
             THEN /\ audio_seq' = get_next_seq
                  /\ start_epoch' = now_epoch
                  /\ force_stop_samples' = 0
                  /\ pc' = "aud_seq_put"
             ELSE UNCHANGED <<audio_seq, startVars, pc>>
    /\ over_run' = RunAfter(over_run, "over", 1)
    /\ UNCHANGED <<diskVars, clockVars, in_setup, flagVars, audio_ok, audio_recording,
                   clipVars, audio_filepath, audio_start_epoch, audio_samples_written,
                   audio_force_active, audio_force_stop_samples, vad_under_count,
                   localVars, timerVars, progHist>>

\* the same step where only the sample counts are followed
AudioTickIdleOver == AudioTickIdleOverCore /\ UNCHANGED ringVars

\* finish_audio_recording, lines 506-509, leaving the file of a dropped clip in place
DropClip_keep(fs, path) == fs

\* finish_audio_recording, lines 506-509: the file of a dropped clip is removed
DropClip(fs, path) == {f \in fs : f.path # path}

\* start_audio_recording, lines 529-561, after get_next_seq(): the start epoch, the
\* folder and the file, the WAV header, the preroll and the first frame.  A card
\* without room for the clip makes the frame write short: finish_audio_recording(false)
\* removes the file and the call returns false.  After a VAD start that returned
\* true audio_tick clears vad_over_count (lines 617-619).
AudioOpenCore ==
    /\ pc = "aud_open"
    /\ LET epoch == IF start_epoch > 0 THEN start_epoch ELSE now_epoch
           path == AudioPath(audio_seq)
           room == TotalUnits - UsedUnits(files)
       IN /\ audio_start_epoch' = adjust_start_epoch(epoch)
          /\ IF room < FileUnits
             THEN /\ audio_force_stop_samples' = 0
                  /\ audio_force_active' = FALSE
                  /\ audio_filepath' = NoPath
                  /\ audio_samples_written' = 0
                  /\ vad_over_count' = 0
                  /\ files' = DropClip(files \cup {[path |-> path, units |-> room]}, path)
                  /\ UNCHANGED audio_recording
             ELSE /\ audio_force_stop_samples' = force_stop_samples
                  /\ audio_force_active' = (force_stop_samples > 0)
                  /\ audio_filepath' = path
                  /\ files' = files \cup {[path |-> path, units |-> FileUnits]}
                  /\ audio_samples_written' = preroll_available + kAudioFrameSamples
                  /\ audio_recording' = TRUE
                  /\ vad_over_count' = IF force_stop_samples = 0 THEN 0 ELSE vad_over_count
    /\ vad_under_count' = 0
    /\ start_epoch' = 0 /\ force_stop_samples' = 0
    /\ pc' = "loop"
    /\ UNCHANGED <<nvs_seq, manifests, tmps, base_used, hwVars, clockVars, in_setup, flagVars,
                   audio_ok, clipVars, audio_seq, preroll_index, preroll_filled, over_frames,
                   localVars, timerVars, histVars>>

\* the same step where only the sample counts are followed
AudioOpen == AudioOpenCore /\ UNCHANGED ringVars

\* audio_tick(), lines 624-627 and 636-640, after the frame is written: a forced clip
\* ends once audio_samples_written reaches audio_force_stop_samples, whatever the
\* level; a VAD clip ends after AUDIO_VAD_STOP_FRAMES frames under the stop threshold
\* in a row or once it lasts AUDIO_MAX_SEC.
ForcedDone(written) == audio_force_stop_samples > 0 /\ written >= audio_force_stop_samples

\* line 643 with > for >=
VadDone_gt(written, under) ==
    under >= AUDIO_VAD_STOP_FRAMES \/ written > AUDIO_MAX_SEC * AUDIO_SAMPLE_RATE

\* lines 636-643: the end of a VAD clip
VadDone(written, under) ==
    under >= AUDIO_VAD_STOP_FRAMES \/ written >= AUDIO_MAX_SEC * AUDIO_SAMPLE_RATE

\* finish_audio_recording(keep), lines 493-496: a clip shorter than AUDIO_MIN_SEC is dropped
KeepClip_always(written) == TRUE
KeepClip(written) == written >= AUDIO_MIN_SEC * AUDIO_SAMPLE_RATE

\* audio_tick(), lines 608-645, while recording: the frames of one level up to the
\* first one that ends the clip (at most FramesPerStep of them) are written; when the
\* clip ends finish_audio_recording(true) removes a short clip (lines 506-509) or
\* writes the PENDING manifest (line 511).
AudioTickRecordingCore ==
    /\ pc = "loop"
    /\ audio_ok /\ audio_recording
    /\ \E level \in Levels :
          LET to_stop == IF audio_force_active
                         THEN (IF audio_force_stop_samples > 0
                               THEN FramesUntil(audio_samples_written, audio_force_stop_samples)
                               ELSE FramesPerStep)
                         ELSE Min(FramesUntil(audio_samples_written,
                                              AUDIO_MAX_SEC * AUDIO_SAMPLE_RATE),
                                  IF level = "under" /\ vad_under_count < AUDIO_VAD_STOP_FRAMES
                                  THEN AUDIO_VAD_STOP_FRAMES - vad_under_count
                                  ELSE FramesPerStep)
              n == Min(FramesPerStep, to_stop)
              written == audio_samples_written + n * kAudioFrameSamples
              under == IF audio_force_active THEN vad_under_count
                       ELSE IF level = "under" THEN vad_under_count + n ELSE 0
              done == IF audio_force_active THEN ForcedDone(written)
                      ELSE VadDone(written, under)
          IN /\ over_run' = RunAfter(over_run, level, n)
             /\ IF ~done
                THEN /\ audio_samples_written' = written
                     /\ vad_under_count' = under
                     /\ UNCHANGED <<files, pc, wm, wm_ret, audio_recording, audio_filepath,
                                    audio_force_active, audio_force_stop_samples,
                                    vad_over_count>>
                ELSE IF KeepClip(written)
                THEN /\ audio_samples_written' = written
                     /\ vad_under_count' = under
                     /\ wm' = ManifestPayload(audio_seq, audio_filepath, audio_start_epoch,
                                              "PENDING", "audio", "audio/wav", 0, 0)
                     /\ wm_ret' = "aud_finish"
                     /\ pc' = "wm_open"
                     /\ UNCHANGED <<files, audio_recording, audio_filepath,
                                    audio_force_active, audio_force_stop_samples,
                                    vad_over_count>>
                ELSE /\ files' = DropClip(files, audio_filepath)
                     /\ audio_recording' = FALSE
                     /\ audio_force_active' = FALSE
                     /\ audio_force_stop_samples' = 0
                     /\ audio_samples_written' = 0
                     /\ audio_filepath' = NoPath
                     /\ vad_over_count' = 0
                     /\ vad_under_count' = 0
                     /\ UNCHANGED <<pc, wm, wm_ret>>
    /\ UNCHANGED <<nvs_seq, manifests, tmps, base_used, hwVars, clockVars, in_setup, flagVars,
                   audio_ok, clipVars, audio_start_epoch, audio_seq, preroll_index,
                   preroll_filled, over_frames, startVars, cap_seq, item, attempt_epoch,
                   batch_i, free_pct, timerVars, progHist>>

\* the same step where only the sample counts are followed
AudioTickRecording == AudioTickRecordingCore /\ UNCHANGED ringVars

\* finish_audio_recording, lines 515-521, after write_manifest_atomic returned
AudioFinish ==
    /\ pc = "aud_finish"
    /\ audio_recording' = FALSE
    /\ audio_force_active' = FALSE
    /\ audio_force_stop_samples' = 0
    /\ audio_samples_written' = 0
    /\ audio_filepath' = NoPath
    /\ vad_over_count' = 0
    /\ vad_under_count' = 0
    /\ wm' = NoManifest /\ wm_ret' = ""
    /\ pc' = "loop"
    /\ UNCHANGED <<ringVars, diskVars, clockVars, in_setup, flagVars, audio_ok, clipVars,
                   audio_start_epoch, audio_seq, preroll_index, preroll_filled, over_frames,
                   startVars, cap_seq, item, attempt_epoch, batch_i, free_pct, timerVars, histVars>>

\* audio_tick(), lines 624-627: write_audio_frame fails (a short write);
\* finish_audio_recording(false) closes the file, removes it and resets the state.
AudioWriteFail ==
    /\ pc = "loop"
    /\ audio_ok /\ audio_recording
    /\ io_faults < MaxFaults
    /\ io_faults' = io_faults + 1
    /\ \E level \in Levels : over_run' = RunAfter(over_run, level, 1)
    /\ files' = DropClip(files, audio_filepath)
    /\ audio_recording' = FALSE
    /\ audio_force_active' = FALSE
    /\ audio_force_stop_samples' = 0
    /\ audio_samples_written' = 0
    /\ audio_filepath' = NoPath
    /\ vad_over_count' = 0
    /\ vad_under_count' = 0
    /\ UNCHANGED <<ringVars, nvs_seq, manifests, tmps, base_used, hwVars, clockVars, pc, in_setup,
                   flagVars, audio_ok, clipVars, audio_start_epoch, audio_seq, preroll_index,
                   preroll_filled, over_frames, startVars, localVars, timerVars, latest,
                   ingest_acks, failed_attempts, reboots, issued, attempt_wall, attempts_started>>

\* loop(), lines 1207-1210: send_telemetry() runs when audio is idle
TelemetryBegin ==
    /\ pc = "loop"
    /\ AudioIdle
    /\ pc' = "telemetry"
    /\ UNCHANGED <<ringVars, diskVars, clockVars, in_setup, flagVars, audioVars, localVars, histVars>>

TelemetryEnd ==
    /\ pc = "telemetry"
    /\ pc' = "loop"
    /\ UNCHANGED <<ringVars, diskVars, clockVars, in_setup, flagVars, audioVars, localVars, histVars>>

\* The device with camera and microphone while no upload is due (the upload timer of
\* loop() line 1197 has not fired): capture, the retention check, the clock, power loss
\* and audio.  Without uploads nothing is UPLOADED, so retention never picks a file.
NextAudio ==
    \/ Setup
    \/ SetupNet
    \/ CaptureSkip
    \/ CaptureBegin
    \/ SeqPut
    \/ CaptureWrite
    \/ CaptureDone
    \/ WM_WriteTmp
    \/ WM_RemoveFinal
    \/ WM_Rename
    \/ RetentionBegin
    \/ RetentionCheck
    \/ RetentionEnd
    \/ WifiReconnect
    \/ NtpSync
    \/ Tick
    \/ PowerLoss
    \/ HeartbeatDue
    \/ AudioTickForced
    \/ AudioTickIdleQuiet
    \/ AudioTickIdleOver
    \/ AudioOpen
    \/ AudioTickRecording
    \/ AudioFinish
    \/ TelemetryBegin
    \/ TelemetryEnd

SpecAudio == InitAudio /\ [][NextAudio]_vars

\* The device with camera and microphone whose audio file writes can fail.
NextAudioIO ==
    \/ NextAudio
    \/ AudioWriteFail

\* The board with camera and microphone on a card that other data fill up to the room
\* of one artifact: the first retention sweep after the photo of setup() pauses capture.
FullCardUsed == TotalUnits - FileUnits
InitFull == BootOn({TRUE}, {TRUE}, {TRUE}, {FullCardUsed}, 0, {}, {})

\* Failing audio writes on a card with room and on the card that is nearly full.
InitAudioIO == InitAudio \/ InitFull
SpecAudioIO == InitAudioIO /\ [][NextAudioIO]_vars
SpecFull == InitFull /\ [][NextAudio]_vars

\* The board whose camera does not answer, in a silent room: heartbeat clips are the
\* only new artifacts, and the upload engine and the retention controller work on them
\* and on what the card holds from the time the camera worked: nothing, or one photo
\* whose upload was never tried or has failed twice.
OldPhoto == [folder |-> "/unsynced", stamp |-> 0, seq |-> 0, ext |-> ".jpg"]
OldManifest(attempts) ==
    ManifestPayload(0, OldPhoto, BootUptimeSec, "PENDING", "photo", "image/jpeg", attempts,
                    IF attempts = 0 THEN 0 ELSE BootUptimeSec)

InitMic ==
    \/ Boot({TRUE}, {FALSE}, {TRUE})
    \/ \E attempts \in {0, UPLOAD_MAX_ATTEMPTS - 1} :
          BootOn({TRUE}, {FALSE}, {TRUE}, BaseUsedChoices, 1, {[path |-> OldPhoto, units |-> FileUnits]},
                 {OldManifest(attempts)})

NextMic ==
    \/ Setup
    \/ SetupNet
    \/ CaptureSkip
    \/ SeqPut
    \/ WM_WriteTmp
    \/ WM_RemoveFinal
    \/ WM_Rename
    \/ UploadBatchBegin
    \/ UploadOneSkip
    \/ UploadFindGC
    \/ UploadFindNone
    \/ UploadSelect
    \/ UploadRequest
    \/ UploadStream
    \/ UploadIngest
    \/ UploadDone
    \/ UploadFailed
    \/ RetentionBegin
    \/ RetentionCheck
    \/ RetentionPick
    \/ RetentionRemoveFile
    \/ RetentionRemoveManifest
    \/ RetentionEnd
    \/ WifiReconnect
    \/ NtpSync
    \/ Tick
    \/ PowerLoss
    \/ HeartbeatDue
    \/ AudioTickForced
    \/ AudioTickIdleQuiet
    \/ AudioOpen
    \/ AudioTickRecording
    \/ AudioFinish
    \/ TelemetryBegin
    \/ TelemetryEnd

SpecMic == InitMic /\ [][NextMic]_vars

\* The same board on a card that is full while the old photo is on it: capture is
\* paused (line 796) until the photo is uploaded and a retention sweep removes it.
\* Frames over the start threshold arrive while idle, and the heartbeat flag comes
\* due while capture is paused.
InitVad ==
    \E attempts \in {0, UPLOAD_MAX_ATTEMPTS - 1} :
       BootOn({TRUE}, {FALSE}, {TRUE}, {FullCardUsed}, 1, {[path |-> OldPhoto, units |-> FileUnits]},
              {OldManifest(attempts)})

NextVad ==
    \/ NextMic
    \/ AudioTickIdleOver

SpecVad == InitVad /\ [][NextVad]_vars

\* ============================================================ the preroll ring
\* The microphone board with the frames themselves followed: every frame audio_tick
\* reads gets the next number, preroll_push stores it in the ring and
\* preroll_write / write_audio_frame append it to the open file.
MaxOf(S) == CHOOSE k \in S : \A j \in S : j <= k

\* preroll_push, lines 357-366, for n frames numbered first, first + 1, ...: frame k
\* goes to the slot at preroll_index, which then advances and wraps.
preroll_push(ring, index, first, n) ==
    LET slot0 == index \div kAudioFrameSamples
        hits(i) == {k \in 0 .. n - 1 : (slot0 + k) % PrerollFrames = i}
    IN [i \in 0 .. PrerollFrames - 1 |->
          IF hits(i) = {} THEN ring[i] ELSE first + MaxOf(hits(i))]

\* preroll_write, lines 368-383: from preroll_index to the end of the ring and then
\* from slot 0 up to preroll_index when the ring has filled, else slots 0 up to
\* preroll_index.
preroll_write(ring, index, filled) ==
    LET start == IF filled THEN index \div kAudioFrameSamples ELSE 0
        available == IF filled THEN PrerollFrames ELSE index \div kAudioFrameSamples
    IN [k \in 1 .. available |-> ring[(start + k - 1) % PrerollFrames]]

\* audio_tick(), lines 594-598: the frame of a forced start is not pushed.
RingTickForced ==
    /\ frames_read < MaxFrames
    /\ AudioTickForcedCore
    /\ frames_read' = frames_read + 1
    /\ UNCHANGED <<audio_preroll, audio_file>>

\* audio_tick(), line 600: every idle frame is pushed.
RingTickIdleQuiet ==
    /\ frames_read + FramesPerStep <= MaxFrames
    /\ AudioTickIdleQuietCore
    /\ audio_preroll' = preroll_push(audio_preroll, preroll_index, frames_read + 1, FramesPerStep)
    /\ frames_read' = frames_read + FramesPerStep
    /\ UNCHANGED audio_file

\* audio_tick(), line 600, for a frame over the start threshold: it is pushed before
\* lines 609-620 count it and call start_audio_recording.
RingTickIdleOver ==
    /\ frames_read < MaxFrames
    /\ AudioTickIdleOverCore
    /\ audio_preroll' = preroll_push(audio_preroll, preroll_index, frames_read + 1, 1)
    /\ frames_read' = frames_read + 1
    /\ UNCHANGED audio_file

\* start_audio_recording, lines 548-558: the new file gets the ring (preroll_write)
\* and then the frame of this tick (write_audio_frame).
RingOpen ==
    /\ AudioOpenCore
    /\ audio_file' = IF audio_recording'
                     THEN preroll_write(audio_preroll, preroll_index, preroll_filled)
                              \o <<frames_read>>
                     ELSE <<>>
    /\ UNCHANGED <<audio_preroll, frames_read>>

\* audio_tick(), lines 624-627: while recording each frame is appended to the file
\* and nothing is pushed into the ring.
RingTickRecording ==
    /\ AudioTickRecordingCore
    /\ LET kept == audio_recording' \/ pc' = "wm_open"
           n == IF kept
                THEN (audio_samples_written' - audio_samples_written) \div kAudioFrameSamples
                ELSE 1
       IN /\ frames_read + n <= MaxFrames
          /\ frames_read' = frames_read + n
          /\ audio_file' = IF kept
                           THEN audio_file \o [k \in 1 .. n |-> frames_read + k]
                           ELSE <<>>
    /\ UNCHANGED audio_preroll

InitRing == Boot({TRUE}, {FALSE}, {TRUE})

NextRing ==
    \/ Setup
    \/ SetupNet
    \/ CaptureSkip
    \/ SeqPut
    \/ WM_WriteTmp
    \/ WM_RemoveFinal
    \/ WM_Rename
    \/ Tick
    \/ HeartbeatDue
    \/ RingTickForced
    \/ RingTickIdleQuiet
    \/ RingTickIdleOver
    \/ RingOpen
    \/ RingTickRecording
    \/ AudioFinish

SpecRing == InitRing /\ [][NextRing]_vars

\* ================================================================= progress
\* A board without camera and microphone (audio is always idle) with one photo of an
\* earlier run PENDING on the card: setup(), the Wi-Fi reconnect and the NTP sync of
\* loop(), the upload batches, the clock and power loss.
InitLive ==
    BootOn({FALSE}, {FALSE}, {TRUE}, BaseUsedChoices, 1, {[path |-> OldPhoto, units |-> FileUnits]},
           {OldManifest(0)})

\* the steps inside setup() and inside a call made by loop(): once begun they run on
LiveSteps ==
    \/ Setup
    \/ CaptureSkip
    \/ SetupNet
    \/ WM_WriteTmp
    \/ WM_RemoveFinal
    \/ WM_Rename
    \/ UploadOneSkip
    \/ UploadFindGC
    \/ UploadFindNone
    \/ UploadSelect
    \/ UploadRequest
    \/ UploadStream
    \/ UploadIngest
    \/ UploadDone
    \/ UploadFailed

NextLive ==
    \/ LiveSteps
    \/ UploadBatchBegin
    \/ WifiReconnect
    \/ NtpSync
    \/ Tick
    \/ PowerLoss

\* loop() never stops: a call that began goes on to its end, the upload timer of
\* line 1197 fires again and again, Wi-Fi comes back (lines 1168-1174) and time
\* advances.  Whether a request succeeds and whether NTP answers is up to the network.
LiveFair ==
    /\ WF_vars(LiveSteps)
    /\ SF_vars(UploadBatchBegin)
    /\ SF_vars(WifiReconnect)
    /\ SF_vars(Tick)

SpecLive == InitLive /\ [][NextLive]_vars /\ LiveFair

\* ================================================================ the scans
\* find_oldest_pending and find_oldest_uploaded applied to a /manifests directory
\* of up to three manifests: captured epochs 0 (as written in the second after
\* millis() wraps) and two positive values, every status, never attempted, in
\* backoff or past it, and at the attempt limit after a power loss.
OrderSeqs == 0 .. 2
OrderEpochs == {0, 5, 9}
OrderNows == {120, 200}
OrderAttempts == {<<"PENDING", 0, 0>>, <<"PENDING", 1, 100>>, <<"PENDING", 3, 100>>,
                  <<"UPLOADED", 1, 100>>, <<"FAILED", 3, 100>>}

OrderManifest(seq, epoch, a) ==
    ManifestPayload(seq, [folder |-> "/unsynced", stamp |-> 0, seq |-> seq, ext |-> ".jpg"],
                    epoch, a[1], "photo", "image/jpeg", a[2], a[3])

InitOrder ==
    /\ nvs_seq = 3
    /\ files = {}
    /\ \E present \in SUBSET OrderSeqs :
          \E pick \in [present -> OrderEpochs \X OrderAttempts] :
             manifests = {OrderManifest(q, pick[q][1], pick[q][2]) : q \in present}
    /\ tmps = {}
    /\ base_used \in {32}
    /\ mic_present = FALSE /\ cam_present = TRUE /\ sd_present = TRUE
    /\ wall = WallBase
    /\ uptime \in OrderNows
    /\ pc = "scan"
    /\ in_setup = FALSE
    /\ sd_ok = TRUE /\ camera_ok = TRUE /\ wifi_ok = TRUE
    /\ ntp_synced = FALSE /\ capture_paused = FALSE
    /\ audio_ok = FALSE /\ audio_recording = FALSE
    /\ audio_photo_clip_pending = FALSE /\ audio_photo_clip_epoch = 0
    /\ audio_heartbeat_pending = FALSE
    /\ audio_filepath = NoPath /\ audio_start_epoch = 0 /\ audio_seq = 0
    /\ audio_samples_written = 0
    /\ audio_force_active = FALSE /\ audio_force_stop_samples = 0
    /\ vad_over_count = 0 /\ vad_under_count = 0
    /\ preroll_index = 0 /\ preroll_filled = FALSE
    /\ last_audio_heartbeat = 0
    /\ start_epoch = 0 /\ force_stop_samples = 0
    /\ over_frames = 0
    /\ cap_seq = 0
    /\ item = NoItem
    /\ attempt_epoch = 0
    /\ batch_i = 0
    /\ free_pct = 0
    /\ wm = NoManifest
    /\ wm_ret = ""
    /\ latest = [s \in Seqs |-> NoManifest]
    /\ ingest_acks = [s \in Seqs |-> 0]
    /\ failed_attempts = [s \in Seqs |-> 0]
    /\ reboots = 0
    /\ io_faults = 0
    /\ issued = <<>>
    /\ attempt_wall = [s \in Seqs |-> 0]
    /\ attempts_started = [s \in Seqs |-> 0]
    /\ over_run = 0
    /\ audio_preroll = EmptyRing /\ audio_file = <<>> /\ frames_read = 0

\* find_oldest_pending(out) over one enumeration of the directory
FindPending ==
    /\ pc = "scan"
    /\ \E order \in Orders(manifests) :
          LET r == find_oldest_pending(order, now_epoch)
          IN /\ item' = r.out
             /\ pc' = IF r.found THEN "pending_found" ELSE "pending_none"
    /\ UNCHANGED <<ringVars, diskVars, clockVars, in_setup, flagVars, audioVars, cap_seq,
                   attempt_epoch, batch_i, free_pct, wm, wm_ret, histVars>>

\* find_oldest_uploaded(out) over one enumeration of the directory
FindUploaded ==
    /\ pc = "scan"
    /\ \E order \in Orders(manifests) :
          LET r == find_oldest_uploaded(order)
          IN /\ item' = r.out
             /\ pc' = IF r.found THEN "uploaded_found" ELSE "uploaded_none"
    /\ UNCHANGED <<ringVars, diskVars, clockVars, in_setup, flagVars, audioVars, cap_seq,
                   attempt_epoch, batch_i, free_pct, wm, wm_ret, histVars>>

\* the caller is done with the result
ScanReturn ==
    /\ pc \in {"pending_found", "pending_none", "uploaded_found", "uploaded_none"}
    /\ item' = NoItem
    /\ pc' = "scan"
    /\ UNCHANGED <<ringVars, diskVars, clockVars, in_setup, flagVars, audioVars, cap_seq,
                   attempt_epoch, batch_i, free_pct, wm, wm_ret, histVars>>

NextOrder ==
    \/ FindPending
    \/ FindUploaded
    \/ ScanReturn

SpecOrder == InitOrder /\ [][NextOrder]_vars

\* ==================================================== the upload-url step refused
\* request_upload_target, lines 909-913: DEVICE_TOKEN is empty; the call returns false
\* before any request is made, and upload_one_pending goes to its failure branch.
UploadNoToken ==
    /\ pc = "up_request"
    /\ FailWrite
    /\ attempts_started' = [attempts_started EXCEPT ![item.seq] = @ + 1]
    /\ UNCHANGED <<ringVars, diskVars, clockVars, in_setup, flagVars, audioVars, cap_seq, item,
                   attempt_epoch, batch_i, free_pct, latest, ingest_acks, failed_attempts,
                   reboots, io_faults, issued, attempt_wall, over_run>>

\* request_upload_target, lines 927-932: the server answers the upload-url request
\* with 401 or 403 (the token is not accepted); the call returns false.
UploadDenied ==
    /\ pc = "up_request"
    /\ FailWrite
    /\ attempt_wall' = [attempt_wall EXCEPT ![item.seq] = wall]
    /\ attempts_started' = [attempts_started EXCEPT ![item.seq] = @ + 1]
    /\ UNCHANGED <<ringVars, diskVars, clockVars, in_setup, flagVars, audioVars, cap_seq, item,
                   attempt_epoch, batch_i, free_pct, latest, ingest_acks, failed_attempts,
                   reboots, io_faults, issued, over_run>>

\* what the firmware does around an upload-url step that never succeeds
NextRefused ==
    \/ Setup
    \/ SetupNet
    \/ CaptureSkip
    \/ CaptureBegin
    \/ SeqPut
    \/ CaptureWrite
    \/ CaptureDone
    \/ WM_WriteTmp
    \/ WM_RemoveFinal
    \/ WM_Rename
    \/ UploadBatchBegin
    \/ UploadOneSkip
    \/ UploadFindGC
    \/ UploadFindNone
    \/ UploadSelect
    \/ UploadFailed
    \/ RetentionBegin
    \/ RetentionCheck
    \/ RetentionEnd
    \/ WifiReconnect
    \/ NtpSync
    \/ Tick
    \/ PowerLoss

\* the build with an empty DEVICE_TOKEN
NextNoToken == NextRefused \/ UploadNoToken
SpecNoToken == Init /\ [][NextNoToken]_vars

\* the build whose token the server does not accept
NextDenied == NextRefused \/ UploadDenied
SpecDenied == Init /\ [][NextDenied]_vars

\* ================================================================ the batch
\* upload_batch() on a card that holds more artifacts than one batch takes: six
\* photos with their manifests, the first of them fresh or left at the attempt limit
\* by a power loss, the third with or without its file; Wi-Fi up or down.
BatchSeqs == 0 .. 5
BatchPath(q) == [folder |-> "/unsynced", stamp |-> 0, seq |-> q, ext |-> ".jpg"]
BatchManifest(q, a) ==
    ManifestPayload(q, BatchPath(q), q + 1, "PENDING", "photo", "image/jpeg", a[1], a[2])

InitBatch ==
    /\ nvs_seq = 6
    /\ \E gone \in SUBSET {2} :
          files = {[path |-> BatchPath(q), units |-> FileUnits] : q \in BatchSeqs \ gone}
    /\ \E first \in {<<0, 0>>, <<UPLOAD_MAX_ATTEMPTS, 1>>} :
          manifests = {BatchManifest(q, IF q = 0 THEN first ELSE <<0, 0>>) : q \in BatchSeqs}
    /\ tmps = {}
    /\ base_used \in {4}
    /\ mic_present = FALSE /\ cam_present = FALSE /\ sd_present = TRUE
    /\ wall = WallBase
    /\ uptime = UPLOAD_BACKOFF_SEC_1
    /\ pc = "loop"
    /\ in_setup = FALSE
    /\ sd_ok = TRUE /\ camera_ok = FALSE /\ wifi_ok \in BOOLEAN
    /\ ntp_synced = FALSE /\ capture_paused = FALSE
    /\ audio_ok = FALSE /\ audio_recording = FALSE
    /\ audio_photo_clip_pending = FALSE /\ audio_photo_clip_epoch = 0
    /\ audio_heartbeat_pending = FALSE
    /\ audio_filepath = NoPath /\ audio_start_epoch = 0 /\ audio_seq = 0
    /\ audio_samples_written = 0
    /\ audio_force_active = FALSE /\ audio_force_stop_samples = 0
    /\ vad_over_count = 0 /\ vad_under_count = 0
    /\ preroll_index = 0 /\ preroll_filled = FALSE
    /\ last_audio_heartbeat = 0
    /\ start_epoch = 0 /\ force_stop_samples = 0
    /\ over_frames = 0
    /\ cap_seq = 0
    /\ item = NoItem
    /\ attempt_epoch = 0
    /\ batch_i = 0
    /\ free_pct = 0
    /\ wm = NoManifest
    /\ wm_ret = ""
    /\ latest = [s \in BatchSeqs |-> CHOOSE m \in manifests : m.seq = s]
    /\ ingest_acks = [s \in BatchSeqs |-> 0]
    /\ failed_attempts = [s \in BatchSeqs |-> 0]
    /\ reboots = 0
    /\ io_faults = 0
    /\ issued = <<>>
    /\ attempt_wall = [s \in BatchSeqs |-> 0]
    /\ attempts_started = [s \in BatchSeqs |-> 0]
    /\ over_run = 0
    /\ audio_preroll = EmptyRing /\ audio_file = <<>> /\ frames_read = 0

NextBatch ==
    \/ UploadBatchBegin
    \/ UploadOneSkip
    \/ UploadFindGC
    \/ UploadFindNone
    \/ UploadSelect
    \/ UploadRequest
    \/ UploadStream
    \/ UploadIngest
    \/ UploadDone
    \/ UploadFailed
    \/ WM_WriteTmp
    \/ WM_RemoveFinal
    \/ WM_Rename
    \/ WifiReconnect

SpecBatch == InitBatch /\ [][NextBatch]_vars

\* ------------------------------------------------------------ properties
\* positions inside write_manifest_atomic, and the terminal statuses
WritePcs == {"wm_open", "wm_replace", "wm_rename"}
Terminal == {"UPLOADED", "FAILED"}

\* the manifest files on the card are what their last completed write left
DiskIsLatest == \A m \in manifests : m.seq \in Seqs /\ latest[m.seq] = m

\* an upload attempt for item.seq was selected and its first write has not begun
AttemptStarts == pc = "wm_open" /\ wm_ret = "up_request"

\* an upload attempt for seq s is between its selection and its last write
AttemptRuns(s) ==
    /\ item # NoItem
    /\ item.seq = s
    /\ \/ pc \in {"up_request", "up_stream", "up_ingest"}
       \/ pc \in WritePcs /\ wm_ret \in {"up_request", "up_failed", "up_done"}

\* one step of a manifest's status history
C1_StatusStep ==
    \A s \in Seqs :
        /\ (latest[s] = NoManifest /\ latest'[s] # NoManifest) => latest'[s].status = "PENDING"
        /\ latest[s].status \in Terminal => latest'[s].status = latest[s].status
        /\ latest'[s].status \in {"", "PENDING", "UPLOADED", "FAILED"}

\* C1: the statuses written to one item's manifest over time are a prefix of
\* PENDING -> (UPLOADED | FAILED): the first write is PENDING, a PENDING manifest is
\* rewritten as PENDING, UPLOADED or FAILED, a manifest that was written UPLOADED or
\* FAILED never gets another status, and the card holds what was last written.
C1_StatusPrefix == [][C1_StatusStep]_vars /\ []DiskIsLatest

\* C1 witness: a manifest was rewritten from PENDING to FAILED and another from
\* PENDING to UPLOADED, and the upload tick is running again.
C1_Witness ==
    /\ pc = "up_one"
    /\ \E a \in manifests, b \in manifests : a.status = "FAILED" /\ b.status = "UPLOADED"

\* one rewrite of a manifest does not lower upload_attempts
C2_AttemptsStep ==
    \A s \in Seqs :
        latest[s] # NoManifest => latest'[s].upload_attempts >= latest[s].upload_attempts

\* upload_attempts is within 0 .. UPLOAD_MAX_ATTEMPTS wherever it is stored
C2_AttemptsBounded ==
    /\ \A m \in manifests : m.upload_attempts \in 0 .. UPLOAD_MAX_ATTEMPTS
    /\ \A s \in Seqs : latest[s].upload_attempts \in 0 .. UPLOAD_MAX_ATTEMPTS
    /\ pc \in WritePcs => wm.upload_attempts \in 0 .. UPLOAD_MAX_ATTEMPTS

\* C2: upload_attempts of a manifest never decreases from one rewrite to the next,
\* and it never exceeds UPLOAD_MAX_ATTEMPTS (3), on the card or in a write under way.
C2_AttemptsMonotone == [][C2_AttemptsStep]_vars /\ []C2_AttemptsBounded

\* C2 witness: power was lost during the third attempt, which left the manifest
\* PENDING with upload_attempts = 3; after the reboot the upload tick runs again.
C2_Witness ==
    /\ reboots = 1
    /\ pc = "up_one"
    /\ \E m \in manifests : m.status = "PENDING" /\ m.upload_attempts = UPLOAD_MAX_ATTEMPTS

\* C3: find_oldest_pending never returns an item whose manifest on the card is
\* UPLOADED or FAILED: whenever an upload attempt starts, the manifest of the selected
\* seq is on the card with status PENDING and was never written UPLOADED or FAILED.
C3_SelectsOnlyPending ==
    AttemptStarts =>
        /\ ManifestAt(item.seq) # {}
        /\ \A m \in ManifestAt(item.seq) : m.status = "PENDING"
        /\ latest[item.seq].status = "PENDING"

\* C3 witness: an attempt starts for one seq while an older item's manifest on the
\* card is UPLOADED (the comparator alone would have preferred the older one).
C3_Witness ==
    /\ AttemptStarts
    /\ \E m \in manifests :
          /\ m.status = "UPLOADED"
          /\ m.seq # item.seq
          /\ m.captured_at_epoch < item.captured_epoch

\* C4: after UPLOAD_MAX_ATTEMPTS (3) failed upload attempts of a seq, its manifest is
\* FAILED with upload_attempts = 3, no fourth attempt fails, and no attempt for that
\* seq starts or runs again.
C4_FailedAfterMax ==
    \A s \in Seqs :
        /\ failed_attempts[s] <= UPLOAD_MAX_ATTEMPTS
        /\ failed_attempts[s] = UPLOAD_MAX_ATTEMPTS =>
              /\ latest[s].status = "FAILED"
              /\ latest[s].upload_attempts = UPLOAD_MAX_ATTEMPTS
              /\ ManifestAt(s) = {latest[s]}
              /\ ~AttemptRuns(s)

\* C4 witness: three attempts of a seq have failed and a later upload tick has started
\* an attempt for another seq.
C4_Witness ==
    /\ AttemptStarts
    /\ \E s \in Seqs : s # item.seq /\ failed_attempts[s] = UPLOAD_MAX_ATTEMPTS

\* C5: the ingest endpoint acknowledges each seq at most once, in any execution,
\* power loss at any point of upload_one_pending included.
C5_IngestAtMostOnce == \A s \in Seqs : ingest_acks[s] <= 1

\* positions inside enforce_retention, and the UPLOADED manifests on the card
RetentionPcs == {"ret_check", "ret_loop", "ret_rm_file", "ret_rm_manifest"}
UploadedOnCard == {m \in manifests : m.status = "UPLOADED"}

\* what one step of enforce_retention removes
C6_RetentionStep ==
    pc \in RetentionPcs =>
        /\ \A m \in manifests \ manifests' : m.status = "UPLOADED"
        /\ \A f \in files \ files' :
              \E m \in manifests : m.filepath = f.path /\ m.status = "UPLOADED"

\* the artifact of a PENDING or FAILED manifest is on the card
C6_ArtifactsKept ==
    \A m \in manifests : m.status \in {"PENDING", "FAILED"} => FileExists(m.filepath)

\* C6: whatever a step of enforce_retention removes belongs to an item whose manifest
\* on the card is UPLOADED at that moment: a removed manifest is UPLOADED, a removed
\* file is the artifact of an UPLOADED manifest, and so every PENDING or FAILED
\* manifest on the card still has its artifact file.
C6_RetentionOnlyUploaded == [][C6_RetentionStep]_vars /\ []C6_ArtifactsKept

\* C6 witness: retention is about to remove the file of an UPLOADED item while the
\* card also holds a PENDING or FAILED item that was captured earlier.
C6_Witness ==
    /\ pc = "ret_rm_file"
    /\ \E m \in manifests :
          /\ m.status \in {"PENDING", "FAILED"}
          /\ m.captured_at_epoch < item.captured_epoch

\* the item retention is removing, and the other UPLOADED manifests on the card
Removing == pc \in {"ret_rm_file", "ret_rm_manifest"}
OtherUploaded == {m \in UploadedOnCard : m.seq # item.seq}

\* C7 as stated: while retention removes an item, no UPLOADED manifest with a
\* smaller captured epoch is on the card, for every value of the epochs, 0 included.
C7_OldestFirstAnyEpoch ==
    Removing => \A a \in OtherUploaded : ~(a.captured_at_epoch < item.captured_epoch)

\* C7 amended: among UPLOADED manifests with captured epoch > 0 retention removes the
\* smaller epoch first; a manifest with captured epoch 0 is removed only when no
\* UPLOADED manifest with an epoch > 0 is left, and among those the smaller seq first.
C7_OldestFirst ==
    Removing =>
        \A a \in OtherUploaded :
            IF item.captured_epoch > 0
            THEN ~(a.captured_at_epoch > 0 /\ a.captured_at_epoch < item.captured_epoch)
            ELSE a.captured_at_epoch = 0 /\ item.seq < a.seq

\* C7 witness: retention removes an item with a positive epoch while an UPLOADED
\* manifest with epoch 0 stays on the card.
C7_Witness ==
    /\ pc = "ret_rm_file"
    /\ item.captured_epoch > 0
    /\ \E a \in OtherUploaded : a.captured_at_epoch = 0

\* one step of a sweep: ending, going on, picking an item, the first check
C8_SweepStep ==
    /\ (pc \in {"ret_check", "ret_loop"} /\ pc' = "loop") =>
          free_percent(files) >= SD_MIN_FREE_PERCENT \/ UploadedOnCard = {}
    /\ (pc \in {"ret_check", "ret_loop"} /\ free_percent(files) >= SD_MIN_FREE_PERCENT) =>
          pc' \in {pc, "loop", "boot"}
    /\ (pc \in RetentionPcs /\ pc' = "ret_rm_file") =>
          free_percent(files) < SD_MIN_FREE_PERCENT /\ UploadedOnCard # {}
    /\ pc = "ret_check" => files' = files /\ manifests' = manifests

\* C8: a sweep of enforce_retention ends only when free space is at least
\* SD_MIN_FREE_PERCENT (15) or no UPLOADED manifest is left, it picks an item to
\* remove only while free space is below 15, and a sweep that starts with at least
\* 15 removes nothing.
C8_SweepEnds == [][C8_SweepStep]_vars

\* C8 witness: a sweep has removed one item, free space has reached 15 with another
\* UPLOADED item still on the card, and the sweep is about to end.
C8_Witness ==
    /\ pc = "ret_loop"
    /\ free_percent(files) >= SD_MIN_FREE_PERCENT
    /\ UploadedOnCard # {}
    /\ \E s \in Seqs : latest[s].status = "UPLOADED" /\ ManifestAt(s) = {}

\* C9: between steps of the main loop every artifact file on the card has exactly
\* one manifest whose filepath names it.
C9_EveryFileHasOneManifest ==
    pc = "loop" =>
        \A f \in files : Cardinality({m \in manifests : m.filepath = f.path}) = 1

\* the step that ends a call of write_manifest_atomic
C10_WriteStep ==
    \A s \in Seqs :
        (pc \in WritePcs /\ wm.seq = s /\ latest[s] # NoManifest /\ pc' \notin WritePcs) =>
            {m \in manifests' : m.seq = s} \in {{latest[s]}, {wm}}

\* C10: when a call of write_manifest_atomic for a seq whose manifest existed ends,
\* by returning, by a failed step or by power loss, the final path holds the
\* previous manifest or the new one.
C10_AtomicReplace == [][C10_WriteStep]_vars

\* ------------------------------------------------------------------ seq
\* the seq values carried by the artifacts on the card
FileSeqs(f) == {g \in files : g.path.seq = f.path.seq}

\* C11: no two artifacts get the same seq.  The values get_next_seq() hands out, to
\* photo captures and to audio recording starts alike, are strictly increasing in the
\* order of the calls, also across a power loss at any point; gaps are allowed.
C11_SeqStrictlyIncreasing ==
    /\ \A i, j \in 1 .. Len(issued) : i < j => issued[i] < issued[j]
    /\ \A f \in files : FileSeqs(f) = {f}
    /\ \A m \in manifests : ManifestAt(m.seq) = {m} /\ m.filepath.seq = m.seq

\* a photo and an audio clip are on the card, and power was lost along the way
C11_Witness ==
    /\ Len(issued) = MaxSeq
    /\ reboots > 0
    /\ \E f, g \in files : f.path.ext = ".jpg" /\ g.path.ext = ".wav"

\* ---------------------------------------------------------- audio and the rest
UploadPcs == {"up_one", "up_request", "up_stream", "up_ingest", "up_failed", "up_done"}

\* what a step taken while an audio file is open leaves alone: the links, every
\* manifest on the card, and every file but the clip itself
C12_RecordingStep ==
    (audio_recording /\ pc' # "boot") =>
        /\ wifi_ok' = wifi_ok /\ ntp_synced' = ntp_synced
        /\ \A m \in manifests : m \in manifests'
        /\ \A f \in files : f \in files' \/ f.path = audio_filepath

\* where the thread can be while an audio file is open
C12_RecordingPcs ==
    audio_recording =>
        /\ pc \notin UploadPcs \cup RetentionPcs \cup {"telemetry"}
        /\ pc \in WritePcs => wm_ret \in {"cap_done", "aud_finish"}

\* C12: Wi-Fi reconnect, NTP sync, the upload batch, the retention sweep and telemetry
\* never run while audio is RECORDING: while an audio file is open the upload engine
\* rewrites no manifest and retention deletes no file.
C12_QuietWhileRecording == []C12_RecordingPcs /\ [][C12_RecordingStep]_vars

\* a clip is being recorded while Wi-Fi is up and an earlier clip waits for upload
C12_Witness ==
    /\ audio_recording /\ pc = "loop"
    /\ wifi_ok
    /\ \E m \in manifests : m.status = "PENDING"

\* ------------------------------------------------------------ forced clips
\* C13 as stated: the photo-clip flag and the heartbeat flag are never both pending.
C13_NeverBothPending == ~(audio_photo_clip_pending /\ audio_heartbeat_pending)

\* what one step does to the two flags
C13_FlagStep ==
    /\ (~audio_heartbeat_pending /\ audio_heartbeat_pending') => ~audio_recording
    /\ (~audio_photo_clip_pending /\ audio_photo_clip_pending') => ~audio_recording
    /\ (pc = "cap_done" /\ audio_recording /\ pc' # "boot") =>
           UNCHANGED <<audio_photo_clip_pending, audio_photo_clip_epoch>>
    /\ (audio_heartbeat_pending /\ ~audio_heartbeat_pending' /\ pc' # "boot") =>
           ~audio_photo_clip_pending
    /\ (audio_photo_clip_pending /\ ~audio_photo_clip_pending' /\ pc' # "boot") =>
           audio_heartbeat_pending' = audio_heartbeat_pending

\* C13, amended: each flag is raised only while audio is IDLE (the heartbeat flag
\* whether or not a photo clip is pending), and one audio tick services one flag:
\* the photo clip first, the heartbeat staying pending.
C13_OneFlagPerTick == [][C13_FlagStep]_vars

\* a tick has taken the photo clip while the heartbeat flag stays pending
C13_Witness ==
    /\ pc = "aud_seq_put"
    /\ force_stop_samples = kAudioPrerollSamples + ms_to_samples(AUDIO_PHOTO_CLIP_POST_MS)
    /\ audio_heartbeat_pending /\ ~audio_photo_clip_pending

\* the forced length of a photo clip (audio_tick, line 585)
ClipSamples == kAudioPrerollSamples + ms_to_samples(AUDIO_PHOTO_CLIP_POST_MS)

\* finish_audio_recording(true) is writing the manifest of a photo clip
ClipFinishing ==
    /\ pc = "wm_open" /\ wm_ret = "aud_finish"
    /\ audio_force_stop_samples = ClipSamples

C14_ClipStates ==
    /\ (pc \in {"aud_seq_put", "aud_open"} /\ force_stop_samples = ClipSamples) =>
           start_epoch = audio_photo_clip_epoch
    /\ (audio_recording /\ audio_force_active /\ pc = "loop") =>
           audio_samples_written < audio_force_stop_samples
    /\ ClipFinishing =>
           /\ audio_samples_written = ClipSamples
           /\ wm.status = "PENDING" /\ wm.item_type = "audio" /\ wm.seq = audio_seq
           /\ wm.captured_at_epoch = IF audio_photo_clip_epoch > 1
                                     THEN audio_photo_clip_epoch - 1
                                     ELSE audio_photo_clip_epoch

\* the tick that finds the photo-clip flag pending
C14_StartStep ==
    (/\ pc = "loop" /\ audio_ok /\ ~audio_recording /\ audio_photo_clip_pending
     /\ sd_ok /\ ~capture_paused
     /\ ~audio_photo_clip_pending' /\ pc' # "boot") =>
        /\ pc' = "aud_seq_put"
        /\ force_stop_samples' = ClipSamples
        /\ start_epoch' = audio_photo_clip_epoch

UnsyncedCapture == pc = "wm_open" /\ wm_ret = "cap_done" /\ ~ntp_synced

\* C15: a photo captured while NTP has never synced gets captured_at_epoch = 0: the
\* manifest is /manifests/<seq>.json for /unsynced/img_<seq>.jpg with PENDING, photo,
\* image/jpeg, captured_at_epoch 0 and upload_attempts 0 (seq 0 on an empty card).
C15_UnsyncedEpochZero ==
    UnsyncedCapture =>
        wm = ManifestPayload(cap_seq,
                             [folder |-> "/unsynced", stamp |-> 0, seq |-> cap_seq, ext |-> ".jpg"],
                             0, "PENDING", "photo", "image/jpeg", 0, 0)

\* artifacts whose path was built with the clock unsynced
CapturedUnsynced(path) == path.folder \in {"/unsynced", "/unsynced_audio"}

\* the manifests find_oldest_pending can select at time now
Eligible(now) ==
    {m \in manifests : /\ PendingStatus(m.status)
                       /\ ~OverLimit(load_manifest(m))
                       /\ ~InBackoff(load_manifest(m), now)}

\* C16: chronological order is preserved without NTP: among the PENDING artifacts
\* captured with the clock unsynced, upload selection takes them in capture order
\* (ascending seq), also when a reboot lies between the captures.
C16_UnsyncedInCaptureOrder ==
    (AttemptStarts /\ CapturedUnsynced(item.filepath)) =>
        \A m \in Eligible(now_epoch) : CapturedUnsynced(m.filepath) => item.seq <= m.seq

\* ------------------------------------------------------------------ backoff
\* upload_one_pending selects a manifest in this step (lines 1004-1010)
Selects == pc = "up_one" /\ pc' = "wm_open" /\ wm_ret' = "up_request"

\* the selection of a manifest that was attempted before: the difference of the
\* recorded epochs, and the true time since the last request sent for that seq
C17_RetryStep ==
    (Selects /\ item'.upload_attempts > 0) =>
        /\ now_epoch - item'.last_attempt_epoch >= backoff_seconds(item'.upload_attempts)
        /\ wall - attempt_wall[item'.seq] >= backoff_seconds(item'.upload_attempts)

\* C17: a PENDING manifest is selected at time now only if upload_attempts = 0 or
\* now - last_attempt_epoch >= backoff(upload_attempts) (60, 300, 1800 s); so two
\* consecutive attempts of one seq start at least the backoff apart in time.
C17_BackoffElapsed == [][C17_RetryStep]_vars

\* ------------------------------------------------------------ ordering rule
\* the ordering rule: a is older than b
Older(a, b) ==
    IF a.captured_epoch > 0 /\ b.captured_epoch > 0 THEN a.captured_epoch < b.captured_epoch
    ELSE IF a.captured_epoch > 0 /\ b.captured_epoch = 0 THEN TRUE
    ELSE IF a.captured_epoch = 0 /\ b.captured_epoch > 0 THEN FALSE
    ELSE a.seq < b.seq

UploadedItems == {load_manifest(m) : m \in UploadedOnCard}
EligibleItems == {load_manifest(m) : m \in Eligible(now_epoch)}

\* C18: find_oldest_pending returns an eligible PENDING manifest such that no other
\* eligible one is older under the ordering rule, and find_oldest_uploaded an UPLOADED
\* manifest such that no other UPLOADED one is older; each returns 'none' only when
\* there is no candidate.
C18_ReturnsAnOldest ==
    /\ pc = "pending_found" =>
           item \in EligibleItems /\ \A it \in EligibleItems : ~Older(it, item)
    /\ pc = "pending_none" => EligibleItems = {}
    /\ pc = "uploaded_found" =>
           item \in UploadedItems /\ \A it \in UploadedItems : ~Older(it, item)
    /\ pc = "uploaded_none" => UploadedItems = {}

\* the scan chose a timestamped candidate, passing over an unsynced one and over an
\* older one that is still in backoff
C18_Witness ==
    /\ pc = "pending_found"
    /\ item.captured_epoch > 0
    /\ \E a \in EligibleItems : a.captured_epoch = 0 /\ a.seq < item.seq
    /\ \E m \in manifests : /\ m.status = "PENDING"
                             /\ InBackoff(load_manifest(m), now_epoch)
                             /\ Older(load_manifest(m), item)

\* C19 as stated: of two distinct manifests exactly one is older, so the manifest
\* chosen is the same for every enumeration order of /manifests.
C19_SameForEveryOrder ==
    \A o1, o2 \in Orders(manifests) :
        /\ find_oldest_pending(o1, now_epoch) = find_oldest_pending(o2, now_epoch)
        /\ find_oldest_uploaded(o1) = find_oldest_uploaded(o2)

\* two results that differ only by a tie: the same positive epoch, neither older
TieOrSame(r1, r2) ==
    /\ r1.found = r2.found
    /\ \/ r1.out = r2.out
       \/ /\ r1.out.captured_epoch = r2.out.captured_epoch
          /\ r1.out.captured_epoch > 0
          /\ ~Older(r1.out, r2.out) /\ ~Older(r2.out, r1.out)

\* C19, amended: of two distinct manifests exactly one is older unless both carry the
\* same captured_epoch > 0; the manifest chosen is the same for every enumeration
\* order unless the oldest candidates tie in that way, and then it is the one
\* enumerated first.
C19_SameUpToTies ==
    /\ \A o1, o2 \in Orders(manifests) :
           /\ TieOrSame(find_oldest_pending(o1, now_epoch), find_oldest_pending(o2, now_epoch))
           /\ TieOrSame(find_oldest_uploaded(o1), find_oldest_uploaded(o2))
    /\ \A m, n \in manifests :
           LET a == load_manifest(m)
               b == load_manifest(n)
           IN (m # n /\ ~(a.captured_epoch = b.captured_epoch /\ a.captured_epoch > 0)) =>
                  (Older(a, b) /\ ~Older(b, a)) \/ (Older(b, a) /\ ~Older(a, b))

\* the scan returned one of two candidates that tie
C19_Witness ==
    /\ pc = "pending_found"
    /\ \E it \in EligibleItems :
          it.seq # item.seq /\ it.captured_epoch = item.captured_epoch /\ item.captured_epoch > 0
    /\ \E o \in Orders(manifests) : find_oldest_pending(o, now_epoch).out # item

\* ------------------------------------------------------------ the batch
\* a call of upload_one_pending begins: the first of a batch, or the next one after
\* a call that returned true
CallStarts == pc' = "up_one" /\ pc \in {"loop", "up_done"}

\* a call of upload_one_pending returns false: Wi-Fi or card down, nothing eligible,
\* or a failed step
CallFails == (pc = "up_one" /\ pc' \notin {"up_one", "wm_open"}) \/ pc = "up_failed"

\* what one step does to a batch; batch_i is the number of calls of this batch that
\* have returned, all of them true
C20_BatchStep ==
    /\ (CallStarts /\ pc = "loop") => batch_i' = 0
    /\ (CallStarts /\ pc = "up_done") => batch_i' = batch_i + 1
    /\ pc = "up_done" => ingest_acks[item.seq] > 0
    /\ (~CallStarts /\ pc' # "boot") => batch_i' = batch_i \/ pc' = "loop"
    /\ pc' = "up_one" => CallStarts \/ pc = "up_one" \/ (pc = "wm_rename" /\ wm_ret = "up_one")
    /\ CallStarts => batch_i' + 1 <= UPLOAD_BATCH_SIZE
    /\ CallFails => pc' \in {"loop", "boot"}

\* C20: one upload batch starts at most 5 calls of upload_one_pending and starts none
\* after the first call that returns false (Wi-Fi or card down, nothing eligible, or
\* a failed step): a batch holds at most one failed call and it is the last one.
C20_BatchBounded == [][C20_BatchStep]_vars

\* five uploads of one batch have succeeded and the batch has ended with an eligible
\* manifest still waiting
C20_Witness ==
    /\ pc = "loop"
    /\ batch_i = UPLOAD_BATCH_SIZE
    /\ Cardinality({m \in manifests : m.status = "UPLOADED"}) = UPLOAD_BATCH_SIZE
    /\ Eligible(now_epoch) # {}

\* ------------------------------------------------------------ error kinds
\* C21: with the device token missing the upload engine is a no-op: no request is
\* sent and every manifest keeps the status, upload_attempts and last_attempt_epoch
\* it was created with, however many upload ticks run.
C21_EngineNoOp ==
    /\ \A s \in Seqs : attempt_wall[s] = 0
    /\ \A m \in manifests :
           m.status = "PENDING" /\ m.upload_attempts = 0 /\ m.last_attempt_epoch = 0

\* C22: a permanent error (the server refuses the token) moves the manifest to FAILED
\* on that attempt, whatever its attempt count.
C22_PermanentFails ==
    pc = "up_failed" => \A m \in ManifestAt(item.seq) : m.status = "FAILED"

\* ------------------------------------------------------------ capture paused
\* where the thread is inside capture_and_save or start_audio_recording
CapturePcs == {"cap_seq_put", "cap_write", "cap_done", "aud_seq_put", "aud_open"}

\* a step taken while capture is paused allocates no seq and creates no file and no
\* manifest
C23_PausedStep ==
    (capture_paused /\ pc' # "boot") =>
        /\ nvs_seq' = nvs_seq /\ issued' = issued
        /\ files' = files /\ manifests' = manifests /\ tmps' = tmps
        /\ pc' \notin CapturePcs /\ ~audio_recording'

\* C23: while capture_paused is true capture is off: capture_and_save and
\* start_audio_recording (VAD or forced) fail without creating a photo file, an audio
\* file or a manifest and without allocating a seq.
C23_PausedCaptureOff ==
    /\ [](capture_paused => pc \notin CapturePcs \cup WritePcs /\ ~audio_recording)
    /\ [][C23_PausedStep]_vars

\* capture is paused with seq values left, and a VAD start was refused: the count of
\* frames over the threshold stands at the start count with audio still idle
C23_Witness ==
    /\ capture_paused /\ pc = "loop"
    /\ camera_ok /\ audio_ok /\ sd_ok
    /\ nvs_seq < MaxSeq
    /\ vad_over_count >= AUDIO_VAD_START_FRAMES /\ ~audio_recording

\* ------------------------------------------------------------ the pause flag
\* a step that completes a retention sweep
SweepEnds == pc \in {"ret_check", "ret_loop"} /\ pc' = "loop"

\* the pause flag is written by the end of a sweep, from the free space the card
\* then has, and by nothing else
C24_PauseStep ==
    /\ SweepEnds =>
           /\ capture_paused' = (free_percent(files') < SD_EMERGENCY_FREE_PERCENT)
           /\ free_percent(files) >= SD_MIN_FREE_PERCENT => ~capture_paused'
    /\ (~SweepEnds /\ pc' # "boot") => capture_paused' = capture_paused

\* C24: after every completed retention sweep capture_paused is true exactly when
\* free_pct < 5: it is cleared when the sweep finds free_pct >= 15 and otherwise set
\* to (free_pct < 5) as computed after the last deletion.
C24_PausedIffEmergency == [][C24_PauseStep]_vars

\* a sweep that found nothing to delete has paused capture on a full card
C24_Witness ==
    /\ pc = "loop" /\ capture_paused
    /\ free_percent(files) < SD_EMERGENCY_FREE_PERCENT
    /\ \A m \in manifests : m.status # "UPLOADED"

\* ------------------------------------------------------------ attempt times
\* one rewrite of a manifest does not lower last_attempt_epoch
C25_LastAttemptStep ==
    \A s \in Seqs :
        latest[s] # NoManifest =>
            latest'[s].last_attempt_epoch >= latest[s].last_attempt_epoch

\* C25: within one manifest last_attempt_epoch never decreases from one rewrite to
\* the next, also across reboots and across the switch of now_epoch between uptime
\* seconds and wall-clock time.
C25_LastAttemptMonotone ==
    /\ [][C25_LastAttemptStep]_vars
    /\ [](pc \in WritePcs /\ latest[wm.seq] # NoManifest =>
              wm.last_attempt_epoch >= latest[wm.seq].last_attempt_epoch)

\* after a reboot the clock is back in uptime seconds, behind the time of an attempt
\* made in wall-clock time, and the upload scan runs
C25_Witness ==
    /\ pc = "up_one" /\ reboots > 0 /\ ~ntp_synced
    /\ \E m \in manifests : /\ m.status = "PENDING"
                             /\ m.upload_attempts \in 1 .. (UPLOAD_MAX_ATTEMPTS - 1)
                             /\ m.last_attempt_epoch >= WallBase
                             /\ m.last_attempt_epoch > now_epoch

\* ------------------------------------------------------------ short clips
MinSamples == AUDIO_MIN_SEC * AUDIO_SAMPLE_RATE

\* the artifacts of the clip with the seq last given to audio
ClipFiles(fs) == {f \in fs : f.path.ext = ".wav" /\ f.path.seq = audio_seq}

\* how a clip ends: kept only with MinSamples or more, otherwise without a trace
C26_ClipStep ==
    /\ (pc = "loop" /\ audio_recording /\ pc' = "wm_open") =>
           audio_samples_written' >= MinSamples
    /\ (audio_recording /\ ~audio_recording' /\ pc # "aud_finish" /\ pc' # "boot") =>
           ClipFiles(files') = {} /\ ManifestAt(audio_seq)' = {} /\ pc' \notin WritePcs
    /\ (pc = "aud_open" /\ ~audio_recording' /\ pc' # "boot") =>
           ClipFiles(files') = {} /\ ManifestAt(audio_seq)' = {}

\* the audio manifests written and being written
C26_Manifests ==
    /\ (pc \in WritePcs /\ wm.item_type = "audio") =>
           /\ wm_ret = "aud_finish" /\ audio_samples_written >= MinSamples
           /\ wm.seq = audio_seq /\ wm.filepath = audio_filepath
           /\ FileExists(audio_filepath)
    /\ \A m \in manifests : m.item_type = "audio" => FileExists(m.filepath)

\* C26: a clip finalized with fewer than min_samples (16000) samples is dropped and
\* leaves neither an audio file nor a manifest; every audio manifest written belongs
\* to a file with samples_written >= 16000.
C26_ShortClipDropped == [][C26_ClipStep]_vars /\ []C26_Manifests

\* a start on a full card was given a seq and dropped, the ring holding less than
\* MinSamples: nothing of the clip is on the card
C26_Witness ==
    /\ pc = "loop" /\ ~audio_recording /\ reboots = 0
    /\ Len(issued) > 0 /\ issued[Len(issued)] = audio_seq
    /\ ~preroll_filled
    /\ TotalUnits - UsedUnits(files) < FileUnits
    /\ ClipFiles(files) = {} /\ ManifestAt(audio_seq) = {}
    /\ \A f \in files : f.path.seq # audio_seq

\* ------------------------------------------------------------ long clips
MaxSamples == AUDIO_MAX_SEC * AUDIO_SAMPLE_RATE

\* finish_audio_recording(true) is writing the manifest of a VAD clip that did not end
\* on silence
MaxFinishing ==
    /\ pc = "wm_open" /\ wm_ret = "aud_finish"
    /\ ~audio_force_active /\ vad_under_count < AUDIO_VAD_STOP_FRAMES

\* the sizes a recording can have
C27_Sizes ==
    /\ audio_samples_written <= MaxSamples + kAudioFrameSamples
    /\ (audio_recording /\ ~audio_force_active /\ pc = "loop") =>
           audio_samples_written < MaxSamples
    /\ MaxFinishing =>
           /\ audio_samples_written >= MaxSamples
           /\ audio_samples_written < MaxSamples + kAudioFrameSamples
           /\ wm.status = "PENDING" /\ wm.item_type = "audio" /\ wm.seq = audio_seq

\* the tick on which a VAD clip reaches MaxSamples starts its manifest write
C27_MaxStep ==
    (audio_recording /\ ~audio_force_active /\ pc = "loop" /\ pc' # "boot"
       /\ audio_samples_written' >= MaxSamples) => MaxFinishing' \/ vad_under_count' >= AUDIO_VAD_STOP_FRAMES

\* C27: a VAD-mode recording is finalized KEEP on the tick where its duration first
\* reaches max_sec (960000 samples), even if every frame stays above the stop
\* threshold; no recording ever holds more than 960000 samples plus one frame.
C27_MaxLength == []C27_Sizes /\ [][C27_MaxStep]_vars

\* a VAD clip that never saw a frame under the stop threshold is being finalized
C27_Witness ==
    /\ MaxFinishing
    /\ vad_under_count = 0
    /\ audio_samples_written >= MaxSamples

\* ------------------------------------------------------------------ C28
\* the positions of upload_one_pending at which the network is used (lines 1012-1032)
NetworkPcs == {"up_request", "up_stream", "up_ingest"}

\* the manifest of the selected seq on the card counts the attempt under way
AttemptOnCard ==
    /\ ManifestAt(item.seq) # {}
    /\ \A m \in ManifestAt(item.seq) :
          /\ m.status = "PENDING"
          /\ m.upload_attempts = item.upload_attempts + 1
          /\ m.last_attempt_epoch = attempt_epoch

C28_CountedFirst == pc \in NetworkPcs => AttemptOnCard

\* a power loss during the network steps leaves that manifest on the card
C28_CrashStep ==
    (pc \in NetworkPcs /\ pc' = "boot") =>
        /\ \E m \in manifests' : m.seq = item.seq
        /\ \A m \in {x \in manifests' : x.seq = item.seq} :
              /\ m.status = "PENDING"
              /\ m.upload_attempts = item.upload_attempts + 1
              /\ m.upload_attempts <= UPLOAD_MAX_ATTEMPTS

C28_StartedBounded == \A s \in DOMAIN attempts_started : attempts_started[s] <= UPLOAD_MAX_ATTEMPTS

\* C28: while upload_one_pending uses the network for a seq, the manifest of that seq
\* on the card is PENDING with upload_attempts one above the value read and
\* last_attempt_epoch = the time of the attempt; a power loss during these steps leaves
\* that manifest; no seq ever has more than UPLOAD_MAX_ATTEMPTS attempts started,
\* reboots included.
C28_BumpBeforeNetwork ==
    /\ []C28_CountedFirst
    /\ [][C28_CrashStep]_vars
    /\ []C28_StartedBounded

\* the third attempt for a seq is using the network after a power loss that
\* interrupted an earlier attempt for it
C28_Witness ==
    /\ pc \in NetworkPcs
    /\ reboots > 0
    /\ attempts_started[item.seq] = UPLOAD_MAX_ATTEMPTS
    /\ failed_attempts[item.seq] < UPLOAD_MAX_ATTEMPTS - 1

\* ------------------------------------------------------------------ C29
\* a tick of audio_tick on which start_audio_recording goes ahead in VAD mode
VadStartStep == pc = "loop" /\ pc' = "aud_seq_put" /\ force_stop_samples' = 0

\* C29: a VAD-mode recording starts only on a tick whose frame and the
\* AUDIO_VAD_START_FRAMES - 1 frames read immediately before it were all over the start
\* threshold, whichever branch of audio_tick consumed them (a forced start that
\* returned false included).
C29_StartStep == VadStartStep => over_run' >= AUDIO_VAD_START_FRAMES

C29_FourInARow == [][C29_StartStep]_vars

\* ------------------------------------------------------------------ C30
\* the frames of f are one run of consecutive frame numbers, in order
OneRun(f) == \A i \in 1 .. Len(f) - 1 : f[i + 1] = f[i] + 1

\* no frame occurs twice in f
NoRepeat(f) == \A i, j \in 1 .. Len(f) : i # j => f[i] # f[j]

\* finish_audio_recording(true) is keeping the file: its manifest is being written
KeepsFile == wm_ret = "aud_finish"

\* C30: the frames of every kept audio file are one contiguous run of the frames read
\* by audio_tick, in read order (so the preroll ends with the frame read just before
\* the triggering frame and holds nothing from before an earlier recording), and no
\* frame is in the file twice.
C30_OneContiguousRun == KeepsFile => (OneRun(audio_file) /\ NoRepeat(audio_file))

\* a kept forced clip whose preroll jumps over the frames of an earlier recording
C30_StalePreroll ==
    KeepsFile => (NoRepeat(audio_file) => OneRun(audio_file))

\* ------------------------------------------------------------------ C31
PendingOnCard(s) == \E m \in ManifestAt(s) : m.status = "PENDING"

Settled(s) == \E m \in ManifestAt(s) : m.status \in {"UPLOADED", "FAILED"}

\* the run of the model is at its last second
AtHorizon == \A d \in TimeSteps : (wall - WallBase) + d > MaxElapsed

\* the run ends while the manifest of s is rightly waiting: its last_attempt_epoch is
\* a wall-clock value and the backoff has not run out in true time, or it is an
\* uptime value, which the clock in use will pass
RunEndsWaiting(s) ==
    /\ AtHorizon
    /\ \E m \in ManifestAt(s) :
          \/ wall - m.last_attempt_epoch < backoff_seconds(m.upload_attempts)
          \/ m.last_attempt_epoch < WallBase

\* C31: with Wi-Fi up, time advancing and upload batches running, every manifest
\* that is PENDING becomes UPLOADED or FAILED, reboots and a change of the source of
\* now_epoch() included (unless the run ends while it rightly waits for its backoff).
C31_PendingSettles ==
    \A s \in Seqs : PendingOnCard(s) ~> (Settled(s) \/ RunEndsWaiting(s))

\* the manifest of s is no longer on the card (the replace of write_manifest_atomic
\* was cut between remove and rename)
ManifestGone(s) == ManifestAt(s) = {}

\* now_epoch() is uptime seconds while last_attempt_epoch of s is a wall-clock value
ClockBehindStamp(s) ==
    ~ntp_synced /\ \E m \in ManifestAt(s) : m.last_attempt_epoch >= WallBase

\* apart from a lost manifest and a clock behind the stamp, PENDING does settle
C31_SettlesOtherwise ==
    \A s \in Seqs :
       PendingOnCard(s) ~>
          (Settled(s) \/ RunEndsWaiting(s) \/ ManifestGone(s) \/ ClockBehindStamp(s))
====
